---- MODULE Spec2Model ----
(***************************************************************************)
(* Model of the Squardle solving engine (SquardlePlayerService): the       *)
(* Constraint Extractor, Candidate Filter, Scorer, Board Simulator,        *)
(* Feasibility Validator, lookahead and Guess Selector, applied to the     *)
(* GameState snapshots the board state provider hands to playNextGuess.    *)
(***************************************************************************)
EXTENDS Integers, Sequences, FiniteSets, TLC

VARIABLES boardState, result, lastCall, isPlaying, plays, statusAnswer

\* the state of the auto player controller: its flag, the play requests it
\* has received and the answer to the last status request
controllerVars == <<isPlaying, plays, statusAnswer>>

vars == <<boardState, result, lastCall, isPlaying, plays, statusAnswer>>

(***************************************************************************)
(* Bounds of the model.                                                    *)
(***************************************************************************)
\* most hints the game has revealed on the whole board
MaxHints == 1
\* guessesRemaining of a new game
MaxGuesses == 7

(***************************************************************************)
(* Data: letters, words, hints, cells, boards.                             *)
(***************************************************************************)
NULL == "null"

UpperLetters == {"A", "B", "C"}

\* String.prototype.toUpperCase on one letter
toUpperCase(l) ==
  CASE l = "a" -> "A"
    [] l = "b" -> "B"
    [] l = "c" -> "C"
    [] OTHER -> l

Horizontal == "horizontal"
Vertical == "vertical"
Directions == {Horizontal, Vertical}

HorizontalHints == {"HorizontalSimple", "HorizontalDouble", "HorizontalTriple"}
VerticalHints == {"VerticalSimple", "VerticalDouble", "VerticalTriple"}
OrangeHints ==
  {"OrangeSimpleVerticalSimpleHorizontal", "OrangeDoubleVerticalSimpleHorizontal",
   "OrangeTripleVerticalSimpleHorizontal", "OrangeSimpleVerticalDoubleHorizontal",
   "OrangeDoubleVerticalDoubleHorizontal", "OrangeTripleVerticalDoubleHorizontal",
   "OrangeSimpleVerticalTripleHorizontal", "OrangeDoubleVerticalTripleHorizontal",
   "OrangeTripleVerticalTripleHorizontal"}
HintType == HorizontalHints \cup VerticalHints \cup OrangeHints \cup {"White", "Black", "Green"}

\* the cyclic order of guessable indices
guessSequence == <<0, 2, 4>>
GuessIndexes == {0, 2, 4}

\* the lookahead's iteration cap
maxIterations == 6

\* the word corpus provider: the 'answers' list of a language
answersEn ==
  << <<"A","A","A","A","A">>, <<"A","B","A","B","A">>,
     <<"B","A","B","A","B">>, <<"A","A","B","A","A">> >>
answersBr ==
  << <<"a","b","a","b","a">>, <<"a","a","a","a","a">>, <<"b","b","a","b","b">> >>

Languages == {"en", "pt-br", "es"}

\* getWords: throws BadRequestException for a language without a corpus
getWords(language) ==
  CASE language = "pt-br" -> [ok |-> TRUE, val |-> answersBr]
    [] language = "en" -> [ok |-> TRUE, val |-> answersEn]
    [] OTHER -> [ok |-> FALSE, val |-> <<>>]

(***************************************************************************)
(* Helpers for arrays.                                                     *)
(***************************************************************************)
RECURSIVE FlatFrom(_, _)
\* the concatenation of rows[r], rows[r + 1], ...
FlatFrom(rows, r) == IF r > Len(rows) THEN <<>> ELSE rows[r] \o FlatFrom(rows, r + 1)

\* Array.prototype.flat / flatMap over the rows of a board
Flat(rows) == FlatFrom(rows, 1)

\* the places <<row, column>> of a list of lists, counted from 1
Positions(rows) == UNION {{<<r, c>> : c \in 1..Len(rows[r])} : r \in 1..Len(rows)}

\* flat / flatMap come to place p before they come to place q
visitedBefore(p, q) ==
  \E i \in 1..Len(p) : p[i] < q[i] /\ \A j \in 1..(i - 1) : p[j] = q[j]

\* the k-th of a set of places in the order flat / flatMap visit them
kthPlace(places, k) ==
  CHOOSE p \in places : Cardinality({q \in places : visitedBefore(q, p)}) = k - 1

cellAt(board, p) == board[p[1]][p[2]]

\* the cells at a set of places, in the order flatMap visits them
placedCells(board, places) ==
  [k \in 1..Cardinality(places) |-> cellAt(board, kthPlace(places, k))]

\* board.flatMap((row) => row.filter((cell) => cell[axis] === index))
filterCells(board, axis, index) ==
  placedCells(board, {p \in Positions(board) : cellAt(board, p)[axis] = index})

\* the place of cells[i] in the sorted list: after every cell with a smaller key
\* and after the earlier cells with the same key
cellRank(cells, axis, i) ==
  1 + Cardinality({j \in 1..Len(cells) :
                     \/ cells[j][axis] < cells[i][axis]
                     \/ cells[j][axis] = cells[i][axis] /\ j < i})

\* Array.prototype.sort((a, b) => a[axis] - b[axis]), a stable sort
SortCells(cells, axis) ==
  [k \in 1..Len(cells) |->
     cells[CHOOSE i \in 1..Len(cells) : cellRank(cells, axis, i) = k]]

RECURSIVE removeDuplicates(_)
\* [...new Set(array)]: the first occurrence of each element, in order
removeDuplicates(s) ==
  IF s = <<>> THEN <<>>
  ELSE LET init == removeDuplicates(SubSeq(s, 1, Len(s) - 1))
           last == s[Len(s)]
       IN IF \E i \in 1..Len(init) : init[i] = last THEN init ELSE Append(init, last)

Range(s) == {s[i] : i \in 1..Len(s)}

\* String.prototype.includes for one letter, after toUpperCase on both sides
wordIncludes(word, letter) ==
  \E i \in 1..Len(word) : toUpperCase(word[i]) = toUpperCase(letter)

\* word.toUpperCase()
wordToUpperCase(word) == [i \in 1..Len(word) |-> toUpperCase(word[i])]

(***************************************************************************)
(* Board predicates.                                                       *)
(***************************************************************************)
\* the virgin-state test of playNextGuess
isInitialState(board) ==
  \A r \in 1..Len(board) : \A c \in 1..Len(board[r]) : Len(board[r][c].hints) = 0

\* isBlockedPosition with the last corner mistyped
isBlockedPositionThreeCorners(cell) ==
  \/ cell.x = 1 /\ cell.y = 1
  \/ cell.x = 1 /\ cell.y = 3
  \/ cell.x = 3 /\ cell.y = 1
  \/ cell.x = 3 /\ cell.y = 1

isBlockedPosition(cell) ==
  \/ (cell.x = 1 /\ cell.y = 1)
  \/ (cell.x = 1 /\ cell.y = 3)
  \/ (cell.x = 3 /\ cell.y = 1)
  \/ (cell.x = 3 /\ cell.y = 3)

\* board.flat().filter(not blocked).every((cell) => cell.letter !== null)
isBoardFull(board) ==
  \A p \in Positions(board) :
    isBlockedPosition(cellAt(board, p)) \/ cellAt(board, p).letter # NULL

(***************************************************************************)
(* Constraint Extractor.                                                   *)
(***************************************************************************)
\* the cells of the current line of one direction
getCurrentCells(bs, direction) ==
  IF direction = Horizontal
  THEN SortCells(filterCells(bs.board, "y", bs.nextGuessIndex), "x")
  ELSE SortCells(filterCells(bs.board, "x", bs.nextGuessIndex), "y")

\* the places <<row, column, j>> of the hints of a board
hintPlaces(board) ==
  UNION {{<<p[1], p[2], j>> : j \in 1..Len(cellAt(board, p).hints)} :
           p \in Positions(board)}

hintAt(board, h) == board[h[1]][h[2]].hints[h[3]]

\* .flatMap(...cell.hints).filter((hint) => hint.type === HintType.Black)
blackPlaces(board) == {h \in hintPlaces(board) : hintAt(board, h).type = "Black"}

\* .map((hint) => hint.letter) over the hints at a set of places
lettersAt(board, places) ==
  [k \in 1..Cardinality(places) |-> hintAt(board, kthPlace(places, k)).letter]

\* extractBlackLetters reading only the cells of the two current lines
extractBlackLettersOfCurrentLines(bs) ==
  lettersAt(bs.board,
            {h \in blackPlaces(bs.board) :
               \/ bs.board[h[1]][h[2]].x = bs.nextGuessIndex
               \/ bs.board[h[1]][h[2]].y = bs.nextGuessIndex})

\* letters with an absent-everywhere hint anywhere on the board
extractBlackLetters(bs) == lettersAt(bs.board, blackPlaces(bs.board))

\* what one hint at position index of the line adds to the filter lists
\* processHintForFilter knowing the single-axis hints of strength Simple only
processHintForFilterSimpleOnly(hint, direction, index) ==
  LET none == [includes |-> <<>>, excludes |-> <<>>, excludingPositions |-> <<>>]
      mustMove == [includes |-> <<hint.letter>>, excludes |-> <<>>,
                   excludingPositions |-> <<[index |-> index, letter |-> hint.letter]>>]
      mustNot == [includes |-> <<>>, excludes |-> <<hint.letter>>,
                  excludingPositions |-> <<>>]
  IN CASE hint.type = "HorizontalSimple" ->
            IF direction = Horizontal THEN mustMove ELSE mustNot
       [] hint.type = "VerticalSimple" ->
            IF direction = Vertical THEN mustMove ELSE mustNot
       [] hint.type \in OrangeHints -> mustMove
       [] hint.type = "White" -> mustNot
       [] OTHER -> none

\* processHintForFilter treating a combined hint as a row-only hint
processHintForFilterOrangeAsHorizontal(hint, direction, index) ==
  LET none == [includes |-> <<>>, excludes |-> <<>>, excludingPositions |-> <<>>]
      mustMove == [includes |-> <<hint.letter>>, excludes |-> <<>>,
                   excludingPositions |-> <<[index |-> index, letter |-> hint.letter]>>]
      mustNot == [includes |-> <<>>, excludes |-> <<hint.letter>>,
                  excludingPositions |-> <<>>]
  IN CASE hint.type \in HorizontalHints \cup OrangeHints ->
            IF direction = Horizontal THEN mustMove ELSE mustNot
       [] hint.type \in VerticalHints ->
            IF direction = Vertical THEN mustMove ELSE mustNot
       [] hint.type = "White" -> mustNot
       [] OTHER -> none

\* processHintForFilter without the case for White
processHintForFilterNoWhite(hint, direction, index) ==
  LET none == [includes |-> <<>>, excludes |-> <<>>, excludingPositions |-> <<>>]
      mustMove == [includes |-> <<hint.letter>>, excludes |-> <<>>,
                   excludingPositions |-> <<[index |-> index, letter |-> hint.letter]>>]
      mustNot == [includes |-> <<>>, excludes |-> <<hint.letter>>,
                  excludingPositions |-> <<>>]
  IN CASE hint.type \in HorizontalHints ->
            IF direction = Horizontal THEN mustMove ELSE mustNot
       [] hint.type \in VerticalHints ->
            IF direction = Vertical THEN mustMove ELSE mustNot
       [] hint.type \in OrangeHints -> mustMove
       [] OTHER -> none

processHintForFilter(hint, direction, index) ==
  LET none == [includes |-> <<>>, excludes |-> <<>>, excludingPositions |-> <<>>]
      mustMove == [includes |-> <<hint.letter>>, excludes |-> <<>>,
                   excludingPositions |-> <<[index |-> index, letter |-> hint.letter]>>]
      mustNot == [includes |-> <<>>, excludes |-> <<hint.letter>>,
                  excludingPositions |-> <<>>]
  IN CASE hint.type = "Green" -> none
       [] hint.type \in HorizontalHints ->
            IF direction = Horizontal THEN mustMove ELSE mustNot
       [] hint.type \in VerticalHints ->
            IF direction = Vertical THEN mustMove ELSE mustNot
       [] hint.type \in OrangeHints -> mustMove
       [] hint.type = "White" -> mustNot
       [] hint.type = "Black" -> none
       [] OTHER -> none

\* the hint at place p = <<i, j>> of a line, with the index of its cell (from 0)
taggedHint(cells, p) == [index |-> p[1] - 1, hint |-> cells[p[1]].hints[p[2]]]

hintsAt(cells, places) ==
  [k \in 1..Cardinality(places) |-> taggedHint(cells, kthPlace(places, k))]

\* the hints of the cells of a line in the order cells.forEach and
\* cell.hints.forEach visit them
lineHints(cells) ==
  hintsAt(cells, Positions([i \in 1..Len(cells) |-> cells[i].hints]))

\* required-at-position pairs: the confirmed letters of the line
extractMatchingLetters(cells) ==
  LET all == [i \in 1..Len(cells) |-> [index |-> i - 1, letter |-> cells[i].letter]]
  IN SelectSeq(all, LAMBDA m : m.letter # NULL)

\* parts[k]: what the k-th hint of the line adds to the filter lists
createWordFilter(cells, direction, bs) ==
  LET hints == lineHints(cells)
      parts == [k \in 1..Len(hints) |->
                  processHintForFilter(hints[k].hint, direction, hints[k].index)]
  IN [matchingLetters |-> extractMatchingLetters(cells),
      excludingPositions |->
        Flat([k \in 1..Len(parts) |-> parts[k].excludingPositions]),
      includes |->
        removeDuplicates(Flat([k \in 1..Len(parts) |-> parts[k].includes])),
      excludes |->
        removeDuplicates(extractBlackLetters(bs)
                           \o Flat([k \in 1..Len(parts) |-> parts[k].excludes]))]

\* createWordsFilters(boardState)[direction]
createWordsFilters(bs, direction) ==
  createWordFilter(getCurrentCells(bs, direction), direction, bs)

(***************************************************************************)
(* Candidate Filter.                                                       *)
(***************************************************************************)
\* word[index].toUpperCase() === letter.toUpperCase(), index counted from 0
letterAt(word, index) == toUpperCase(word[index + 1])

\* isWordValidForFilter comparing the forbidden letters without toUpperCase
isWordValidForFilterCaseSensitive(word, wordsFilter) ==
  /\ \A i \in 1..Len(wordsFilter.matchingLetters) :
        letterAt(word, wordsFilter.matchingLetters[i].index)
          = toUpperCase(wordsFilter.matchingLetters[i].letter)
  /\ \A i \in 1..Len(wordsFilter.includes) :
        wordIncludes(word, wordsFilter.includes[i])
  /\ ~\E i \in 1..Len(wordsFilter.excludingPositions) :
        letterAt(word, wordsFilter.excludingPositions[i].index)
          = toUpperCase(wordsFilter.excludingPositions[i].letter)
  /\ ~\E i \in 1..Len(wordsFilter.excludes) :
        \E j \in 1..Len(word) : word[j] = wordsFilter.excludes[i]

isWordValidForFilter(word, wordsFilter) ==
  /\ \A i \in 1..Len(wordsFilter.matchingLetters) :
        letterAt(word, wordsFilter.matchingLetters[i].index)
          = toUpperCase(wordsFilter.matchingLetters[i].letter)
  /\ \A i \in 1..Len(wordsFilter.includes) :
        wordIncludes(word, wordsFilter.includes[i])
  /\ ~\E i \in 1..Len(wordsFilter.excludingPositions) :
        letterAt(word, wordsFilter.excludingPositions[i].index)
          = toUpperCase(wordsFilter.excludingPositions[i].letter)
  /\ ~\E i \in 1..Len(wordsFilter.excludes) :
        wordIncludes(word, wordsFilter.excludes[i])

applyWordsFilter(candidateWords, wordsFilter) ==
  SelectSeq(candidateWords, LAMBDA word : isWordValidForFilter(word, wordsFilter))

(***************************************************************************)
(* Scorer.  A confidence is the fraction num / den, kept exact.            *)
(***************************************************************************)
\* letterCount counting a letter in either case
letterCountIgnoringCase(candidateWords, index, letter) ==
  Cardinality({k \in 1..Len(candidateWords) :
                 /\ index <= Len(candidateWords[k])
                 /\ toUpperCase(candidateWords[k][index]) = toUpperCase(letter)})

\* statistics.get(index).get(letter): candidates carrying letter at index
letterCount(candidateWords, index, letter) ==
  Cardinality({k \in 1..Len(candidateWords) :
                 index <= Len(candidateWords[k]) /\ candidateWords[k][index] = letter})

RECURSIVE wordScore(_, _, _)
\* the reduce over the letters of word, from position index on
wordScore(candidateWords, word, index) ==
  IF index > Len(word) THEN 0
  ELSE letterCount(candidateWords, index, word[index])
         + wordScore(candidateWords, word, index + 1)

\* calculateWordConfidence dividing by the number of candidates only
calculateWordConfidencePerWord(candidateWords, word, wordLength) ==
  [word |-> word,
   num |-> wordScore(candidateWords, word, 1),
   den |-> Len(candidateWords)]

\* score / (totalWords * wordLength)
calculateWordConfidence(candidateWords, word, wordLength) ==
  [word |-> word,
   num |-> wordScore(candidateWords, word, 1),
   den |-> Len(candidateWords) * wordLength]

RECURSIVE InsertByConfidence(_, _)
\* places score s after every score that is not smaller (descending, stable)
InsertByConfidence(s, sorted) ==
  IF sorted = <<>> THEN <<s>>
  ELSE IF sorted[1].num < s.num THEN <<s>> \o sorted
  ELSE <<sorted[1]>> \o InsertByConfidence(s, Tail(sorted))

RECURSIVE orderByConfidenceUnstable(_)
\* a descending sort that puts equal confidences in reverse order
orderByConfidenceUnstable(scores) ==
  IF scores = <<>> THEN <<>>
  ELSE InsertByConfidence(scores[1], orderByConfidenceUnstable(Tail(scores)))

RECURSIVE orderByConfidence(_)
\* lodash orderBy(wordsScores, confidence, 'desc'): stable
orderByConfidence(scores) ==
  IF scores = <<>> THEN <<>>
  ELSE InsertByConfidence(scores[Len(scores)],
                          orderByConfidence(SubSeq(scores, 1, Len(scores) - 1)))

\* throws when the candidates do not all have one length
determineWordsScores(candidateWords) ==
  IF candidateWords = <<>> THEN [ok |-> TRUE, val |-> <<>>]
  ELSE IF Cardinality({Len(candidateWords[k]) : k \in 1..Len(candidateWords)}) > 1
  THEN [ok |-> FALSE, val |-> <<>>]
  ELSE LET wordLength == Len(candidateWords[1])
       IN [ok |-> TRUE,
           val |-> orderByConfidence(
                     [k \in 1..Len(candidateWords) |->
                        calculateWordConfidence(candidateWords, candidateWords[k],
                                                wordLength)])]

\* confidence === 1
isPerfectConfidence(score) == score.num = score.den

(***************************************************************************)
(* Board Simulator.                                                        *)
(***************************************************************************)
\* the array slot letter i (from 0) of a word is written to: <<row, column>>
insertSlot(direction, guessIndex, i) ==
  IF direction = Horizontal THEN <<guessIndex + 1, i + 1>> ELSE <<i + 1, guessIndex + 1>>

\* what the loop body does at letter i: "type" is the TypeError of reading
\* .letter of a slot the board does not have
validateLetterInsertion(board, slot, newLetter) ==
  IF slot[1] > Len(board) \/ slot[2] > Len(board[slot[1]]) THEN "type"
  ELSE IF board[slot[1]][slot[2]].letter # NULL
          /\ board[slot[1]][slot[2]].letter # newLetter THEN "conflict"
  ELSE "ok"

\* lodash cloneDeep: an independent copy with the same contents
cloneDeep(board) == board

RECURSIVE insertLetters(_, _, _, _, _)
\* the loop "for (let i = 0; i < word.length; i++)" from letter i on
insertLetters(newBoard, word, direction, guessIndex, i) ==
  IF i >= Len(word) THEN [ok |-> TRUE, err |-> "", val |-> newBoard]
  ELSE LET slot == insertSlot(direction, guessIndex, i)
           newLetter == toUpperCase(word[i + 1])
           status == validateLetterInsertion(newBoard, slot, newLetter)
       IN IF status # "ok" THEN [ok |-> FALSE, err |-> status, val |-> <<>>]
          ELSE insertLetters(
                 [newBoard EXCEPT ![slot[1]][slot[2]].letter = newLetter],
                 word, direction, guessIndex, i + 1)

insertWordInBoard(bs, word, direction) ==
  insertLetters(cloneDeep(bs.board), word, direction, bs.nextGuessIndex, 0)

\* getNextIndex that stays on the index it was given
getNextIndexStaying(currentGuessIndex) ==
  IF \E k \in 1..Len(guessSequence) : guessSequence[k] = currentGuessIndex
  THEN [ok |-> TRUE, val |-> currentGuessIndex]
  ELSE [ok |-> FALSE, val |-> 0]

\* throws for an index outside the guess sequence
getNextIndex(currentGuessIndex) ==
  IF \E k \in 1..Len(guessSequence) : guessSequence[k] = currentGuessIndex
  THEN LET k == CHOOSE j \in 1..Len(guessSequence) : guessSequence[j] = currentGuessIndex
       IN [ok |-> TRUE, val |-> guessSequence[(k % Len(guessSequence)) + 1]]
  ELSE [ok |-> FALSE, val |-> 0]

flipDirection(direction) == IF direction = Horizontal THEN Vertical ELSE Horizontal

(***************************************************************************)
(* Feasibility Validator.                                                  *)
(***************************************************************************)
\* the same test made on the line of the word's own axis
canFillPositionAtIndexSameAxis(simulatedBoard, bs, direction, allCandidateWords, index) ==
  LET test == [bs EXCEPT !.board = simulatedBoard, !.nextGuessIndex = index,
                         !.guessesRemaining = bs.guessesRemaining - 1]
      filterToCheck == createWordsFilters(test, direction)
  IN applyWordsFilter(allCandidateWords, filterToCheck) # <<>>

\* the same test, refusing a line once no guess would remain for it
canFillPositionAtIndexWhileGuessesRemain(simulatedBoard, bs, direction, allCandidateWords, index) ==
  LET test == [bs EXCEPT !.board = simulatedBoard, !.nextGuessIndex = index,
                         !.guessesRemaining = bs.guessesRemaining - 1]
      filterToCheck == createWordsFilters(test, flipDirection(direction))
  IN /\ test.guessesRemaining >= 0
     /\ applyWordsFilter(allCandidateWords, filterToCheck) # <<>>

\* whether the line on the opposite axis at index still has a corpus word
canFillPositionAtIndex(simulatedBoard, bs, direction, allCandidateWords, index) ==
  LET test == [bs EXCEPT !.board = simulatedBoard, !.nextGuessIndex = index,
                         !.guessesRemaining = bs.guessesRemaining - 1]
      filterToCheck == createWordsFilters(test, flipDirection(direction))
  IN applyWordsFilter(allCandidateWords, filterToCheck) # <<>>

\* checkIfWordFits after the simulated insertion sim
canFillRemainingPositions(sim, direction, bs, allCandidateWords) ==
  IF ~sim.ok THEN [ok |-> FALSE, err |-> sim.err, val |-> FALSE]
  ELSE IF isBoardFull(sim.val) THEN [ok |-> TRUE, err |-> "", val |-> TRUE]
  ELSE [ok |-> TRUE, err |-> "",
        val |-> \A k \in 1..Len(guessSequence) :
                  canFillPositionAtIndex(sim.val, bs, direction, allCandidateWords,
                                         guessSequence[k])]

checkIfWordFits(word, direction, bs, allCandidateWords) ==
  canFillRemainingPositions(insertWordInBoard(bs, word, direction), direction, bs,
                            allCandidateWords)

\* the first candidate on which checkIfWordFits throws, counted from 1; 0: none
firstThrow(candidates, direction, bs, allCandidateWords) ==
  LET thrown == {k \in 1..Len(candidates) :
                   ~checkIfWordFits(candidates[k], direction, bs, allCandidateWords).ok}
  IN IF thrown = {} THEN 0 ELSE CHOOSE k \in thrown : \A j \in thrown : k <= j

\* getDeepFilteredCandidates handing on the candidates without the test
getDeepFilteredCandidatesUnchecked(candidates, direction, bs, allCandidateWords) ==
  [ok |-> TRUE, err |-> "", val |-> candidates]

\* candidates.filter(word => checkIfWordFits(...)); the first throw ends it
getDeepFilteredCandidates(candidates, direction, bs, allCandidateWords) ==
  IF candidates = <<>> THEN [ok |-> TRUE, err |-> "", val |-> <<>>]
  ELSE IF firstThrow(candidates, direction, bs, allCandidateWords) = 0
  THEN [ok |-> TRUE, err |-> "",
        val |-> SelectSeq(candidates,
                          LAMBDA word : checkIfWordFits(word, direction, bs,
                                                        allCandidateWords).val)]
  ELSE [ok |-> FALSE,
        err |-> checkIfWordFits(
                  candidates[firstThrow(candidates, direction, bs, allCandidateWords)],
                  direction, bs, allCandidateWords).err,
        val |-> <<>>]

(***************************************************************************)
(* Guess Selector and lookahead.  Every result carries ok (FALSE: the call *)
(* threw err) and three observations of the computation behind it: depth,  *)
(* the deepest nesting of returnNextGuess calls; decr, whether every       *)
(* nested returnNextGuess got fewer guessesRemaining than its caller had;  *)
(* best, what determineBestWord answered per direction in the outermost    *)
(* determineBestWordOverall ("none": not called).                          *)
(***************************************************************************)
Max(a, b) == IF a >= b THEN a ELSE b

NotComputed == [kind |-> "none", word |-> <<>>, num |-> 0, den |-> 1]

NoBest == [horizontal |-> NotComputed, vertical |-> NotComputed]

answerOf(r) ==
  [kind |-> r.kind, word |-> r.word, num |-> r.num, den |-> r.den]

NoWord(depth) ==
  [ok |-> TRUE, err |-> "", kind |-> "null", word |-> <<>>, num |-> 0, den |-> 1,
   direction |-> "", depth |-> depth, decr |-> TRUE, best |-> NoBest]

Thrown(err, depth) ==
  [ok |-> FALSE, err |-> err, kind |-> "error", word |-> <<>>, num |-> 0, den |-> 1,
   direction |-> "", depth |-> depth, decr |-> TRUE, best |-> NoBest]

Found(score, direction, depth) ==
  [ok |-> TRUE, err |-> "", kind |-> "word", word |-> score.word, num |-> score.num,
   den |-> score.den, direction |-> direction, depth |-> depth, decr |-> TRUE,
   best |-> NoBest]

\* r, which was computed after (or out of) the computation observed in other
observedWith(r, other) ==
  [r EXCEPT !.depth = Max(other.depth, @), !.decr = other.decr /\ @]

\* r, which was computed out of the answer nested of a nested returnNextGuess;
\* decreased: that call got fewer guessesRemaining than its caller has
observedNested(r, nested, decreased) ==
  [r EXCEPT !.depth = Max(nested.depth + 1, @),
            !.decr = nested.decr /\ decreased /\ @]

\* the outcome of one simulation run: val is isWordValid
Run(ok, err, val) ==
  [ok |-> ok, err |-> err, val |-> val, depth |-> 0, decr |-> TRUE]

countMissingLetters(cells) == Len(SelectSeq(cells, LAMBDA cell : cell.letter = NULL))

\* selectBetterDirection with the comparison turned round
selectWorseDirection(horizontalWord, verticalWord) ==
  LET hNum == IF horizontalWord.kind = "word" THEN horizontalWord.num ELSE 0
      vNum == IF verticalWord.kind = "word" THEN verticalWord.num ELSE 0
  IN IF hNum * verticalWord.den < vNum * horizontalWord.den
     THEN Horizontal ELSE Vertical

\* (horizontal?.confidence ?? 0) > (vertical?.confidence ?? 0)
selectBetterDirection(horizontalWord, verticalWord) ==
  LET hNum == IF horizontalWord.kind = "word" THEN horizontalWord.num ELSE 0
      vNum == IF verticalWord.kind = "word" THEN verticalWord.num ELSE 0
  IN IF hNum * verticalWord.den > vNum * horizontalWord.den
     THEN Horizontal ELSE Vertical

RECURSIVE returnNextGuess(_)
RECURSIVE isWordValidThroughSimulation(_, _, _, _, _, _)
RECURSIVE findBestWordThroughSimulation(_, _, _, _)

\* the rest of one pass of the loop once the nested Guess Selector answered
continueSimulation(bs, simulatedBoard, nextGuessIndex, nextGuess, decreased, i) ==
  IF nextGuess.kind = "word"
  THEN observedNested(
         isWordValidThroughSimulation(bs, simulatedBoard, nextGuessIndex,
                                      nextGuess.word, nextGuess.direction, i + 1),
         nextGuess, decreased)
  ELSE IF ~nextGuess.ok
  THEN observedNested(Run(FALSE, nextGuess.err, FALSE), nextGuess, decreased)
  ELSE observedNested(Run(TRUE, "", FALSE), nextGuess, decreased)

\* nestedBoardState without the decrement for the pass being simulated
nestedBoardStateSameGuesses(bs, simulatedBoard, nextGuessIndex, i) ==
  [language |-> bs.language,
   guessesRemaining |-> bs.guessesRemaining - i,
   nextGuessIndex |-> nextGuessIndex,
   board |-> simulatedBoard]

\* the state the nested Guess Selector call of pass i gets
nestedBoardState(bs, simulatedBoard, nextGuessIndex, i) ==
  [language |-> bs.language,
   guessesRemaining |-> bs.guessesRemaining - i - 1,
   nextGuessIndex |-> nextGuessIndex,
   board |-> simulatedBoard]

\* one pass of the loop after the simulated insertion sim: the board is full,
\* or the next index is taken and the Guess Selector is asked again
simulationStep(bs, sim, nextIndex, i) ==
  IF /\ sim.ok
     /\ ~isBoardFull(sim.val)
     /\ nextIndex.ok
  THEN continueSimulation(
         bs, sim.val, nextIndex.val,
         returnNextGuess(nestedBoardState(bs, sim.val, nextIndex.val, i)),
         nestedBoardState(bs, sim.val, nextIndex.val, i).guessesRemaining
           < bs.guessesRemaining,
         i)
  ELSE IF ~sim.ok THEN Run(FALSE, sim.err, FALSE)
  ELSE IF isBoardFull(sim.val) THEN Run(TRUE, "", TRUE)
  ELSE Run(FALSE, "index", FALSE)

\* the loop "for (let i = 0; i < maxIterations; i++)" from pass i on
isWordValidThroughSimulation(bs, simulatedBoard, currentGuessIndex, simWord, simDir, i) ==
  IF i >= maxIterations THEN Run(TRUE, "", TRUE)
  ELSE simulationStep(
         bs,
         insertWordInBoard(
           [language |-> bs.language, guessesRemaining |-> bs.guessesRemaining,
            nextGuessIndex |-> currentGuessIndex, board |-> simulatedBoard],
           simWord, simDir),
         getNextIndex(currentGuessIndex), i)

\* the loop over the candidates ending at the first rejected candidate
afterSimulationGivingUp(run, scores, k, bs, direction) ==
  IF run.ok /\ ~run.val THEN observedWith(NoWord(1), run)
  ELSE IF ~run.ok THEN observedWith(Thrown(run.err, 1), run)
  ELSE observedWith(Found(scores[k], direction, 1), run)

\* what the loop over the candidates does with the simulation run of candidate k
afterSimulation(run, scores, k, bs, direction) ==
  IF run.ok /\ ~run.val
  THEN observedWith(findBestWordThroughSimulation(scores, k + 1, bs, direction), run)
  ELSE IF ~run.ok THEN observedWith(Thrown(run.err, 1), run)
  ELSE observedWith(Found(scores[k], direction, 1), run)

\* for (const { word, confidence } of bestWordScore), from candidate k on
findBestWordThroughSimulation(scores, k, bs, direction) ==
  IF k > Len(scores) THEN NoWord(1)
  ELSE afterSimulation(
         isWordValidThroughSimulation(bs, cloneDeep(bs.board), bs.nextGuessIndex,
                                      scores[k].word, direction, 0),
         scores, k, bs, direction)

\* determineBestWord simulating also a best candidate of confidence 1
findBestWordAlwaysSimulating(bestWordScore, bs, direction) ==
  IF bestWordScore.ok /\ bestWordScore.val # <<>>
  THEN findBestWordThroughSimulation(bestWordScore.val, 1, bs, direction)
  ELSE IF ~bestWordScore.ok THEN Thrown("length", 1)
  ELSE NoWord(1)

\* determineBestWord once the candidates are scored: the loop runs unless the
\* scoring threw, no candidate is left or the best one has confidence 1
findBestWord(bestWordScore, bs, direction) ==
  IF /\ bestWordScore.ok
     /\ bestWordScore.val # <<>>
     /\ ~isPerfectConfidence(bestWordScore.val[1])
  THEN findBestWordThroughSimulation(bestWordScore.val, 1, bs, direction)
  ELSE IF ~bestWordScore.ok THEN Thrown("length", 1)
  ELSE IF bestWordScore.val = <<>> THEN NoWord(1)
  ELSE Found(bestWordScore.val[1], direction, 1)

determineBestWord(candidateWords, bs, direction) ==
  findBestWord(determineWordsScores(candidateWords), bs, direction)

\* { ...bestResult!, direction: bestResultDirection }
taggedResult(bestResult, bestResultDirection) ==
  [bestResult EXCEPT !.kind = "word", !.direction = bestResultDirection]

\* what both calls of determineBestWord answered, kept with the result
bothAnswers(r, bestH, bestV) ==
  [r EXCEPT !.best = [horizontal |-> answerOf(bestH),
                      vertical |-> IF bestH.ok THEN answerOf(bestV)
                                   ELSE NotComputed]]

\* the part of determineBestWordOverall after the prioritised direction
getBestWordFromBothDirections(bestH, bestV) ==
  IF ~bestH.ok THEN bothAnswers(bestH, bestH, bestV)
  ELSE IF ~bestV.ok THEN bothAnswers(observedWith(bestV, bestH), bestH, bestV)
  ELSE IF bestH.kind = "null" /\ bestV.kind = "null"
  THEN bothAnswers(observedWith(observedWith(NoWord(1), bestH), bestV), bestH, bestV)
  ELSE IF selectBetterDirection(bestH, bestV) = Horizontal
  THEN bothAnswers(observedWith(taggedResult(bestH, Horizontal), bestV), bestH, bestV)
  ELSE bothAnswers(observedWith(taggedResult(bestV, Vertical), bestH), bestH, bestV)

\* selectBestWordOverall giving priority to the line with fewer empty cells
selectBestWordOverallFewerFirst(missingH, missingV, bestH, bestV) ==
  IF missingH < missingV /\ (~bestH.ok \/ bestH.kind = "word")
  THEN [bestH EXCEPT !.best = [NoBest EXCEPT !.horizontal = answerOf(bestH)]]
  ELSE IF missingH > missingV /\ (~bestV.ok \/ bestV.kind = "word")
  THEN [bestV EXCEPT !.best = [NoBest EXCEPT !.vertical = answerOf(bestV)]]
  ELSE getBestWordFromBothDirections(bestH, bestV)

\* bestH and bestV are computed only where the code calls determineBestWord
selectBestWordOverall(missingH, missingV, bestH, bestV) ==
  IF missingH > missingV /\ (~bestH.ok \/ bestH.kind = "word")
  THEN [bestH EXCEPT !.best = [NoBest EXCEPT !.horizontal = answerOf(bestH)]]
  ELSE IF missingH < missingV /\ (~bestV.ok \/ bestV.kind = "word")
  THEN [bestV EXCEPT !.best = [NoBest EXCEPT !.vertical = answerOf(bestV)]]
  ELSE getBestWordFromBothDirections(bestH, bestV)

determineBestWordOverall(candidateWordsHorizontal, candidateWordsVertical, bs) ==
  selectBestWordOverall(
    countMissingLetters(getCurrentCells(bs, Horizontal)),
    countMissingLetters(getCurrentCells(bs, Vertical)),
    determineBestWord(candidateWordsHorizontal, bs, Horizontal),
    determineBestWord(candidateWordsVertical, bs, Vertical))

\* returnNextGuess giving up only when both lists are empty
calculateNextGuessUnlessBothEmpty(bs, deepH, deepV) ==
  IF /\ deepH.ok
     /\ deepV.ok
     /\ (deepH.val # <<>> \/ deepV.val # <<>>)
  THEN determineBestWordOverall(deepH.val, deepV.val, bs)
  ELSE IF ~deepH.ok THEN Thrown(deepH.err, 1)
  ELSE IF ~deepV.ok THEN Thrown(deepV.err, 1)
  ELSE NoWord(1)

\* returnNextGuess once both candidate lists went through checkIfWordFits: a
\* word is looked for when neither filter threw and neither list is empty
calculateNextGuess(bs, deepH, deepV) ==
  IF /\ deepH.ok
     /\ deepV.ok
     /\ deepH.val # <<>>
     /\ deepV.val # <<>>
  THEN determineBestWordOverall(deepH.val, deepV.val, bs)
  ELSE IF ~deepH.ok THEN Thrown(deepH.err, 1)
  ELSE IF ~deepV.ok THEN Thrown(deepV.err, 1)
  ELSE NoWord(1)

\* the candidates of one direction: direct filter, then checkIfWordFits
getFilteredCandidateWords(bs, candidateWords, direction) ==
  getDeepFilteredCandidates(
    applyWordsFilter(candidateWords, createWordsFilters(bs, direction)),
    direction, bs, candidateWords)

returnNextGuess(bs) ==
  IF ~getWords(bs.language).ok THEN Thrown("language", 1)
  ELSE calculateNextGuess(
         bs,
         getFilteredCandidateWords(bs, getWords(bs.language).val, Horizontal),
         getFilteredCandidateWords(bs, getWords(bs.language).val, Vertical))

\* playNextGuess on a board without hints
getInitialGuess(words, wordScores) ==
  IF ~words.ok THEN Thrown("language", 0)
  ELSE IF ~wordScores.ok THEN Thrown("length", 0)
  ELSE IF wordScores.val = <<>> THEN [NoWord(0) EXCEPT !.kind = "undefined"]
  ELSE Found(wordScores.val[1], "", 0)

\* playNextGuess without the test for a full board
playNextGuessNoFullTest(bs) ==
  IF isInitialState(bs.board)
  THEN getInitialGuess(getWords(bs.language),
                       determineWordsScores(getWords(bs.language).val))
  ELSE returnNextGuess(bs)

playNextGuess(bs) ==
  IF isInitialState(bs.board)
  THEN getInitialGuess(getWords(bs.language),
                       determineWordsScores(getWords(bs.language).val))
  ELSE IF isBoardFull(bs.board) THEN NoWord(0)
  ELSE returnNextGuess(bs)

(***************************************************************************)
(* Board snapshots.                                                        *)
(***************************************************************************)
Cell(x, y, letter, hints) == [x |-> x, y |-> y, letter |-> letter, hints |-> hints]

\* a 5x5 matrix that also holds the four blocked cells
EmptyGrid == [r \in 1..5 |-> [c \in 1..5 |-> Cell(c - 1, r - 1, NULL, <<>>)]]

\* the matrix the scraper builds: blocked positions are skipped, so the rows
\* y = 1 and y = 3 hold the three cells x = 0, 2, 4
extractBoardState ==
  [r \in 1..5 |->
     SelectSeq([c \in 1..5 |-> Cell(c - 1, r - 1, NULL, <<>>)],
               LAMBDA cell : ~isBlockedPosition(cell))]

\* a solved 5x5 board whose small squares are all hidden
SolvedGrid ==
  [r \in 1..5 |->
     [c \in 1..5 |->
        Cell(c - 1, r - 1,
             IF isBlockedPosition([x |-> c - 1, y |-> r - 1]) THEN NULL ELSE "A",
             <<>>)]]

\* the cell of the page at (x, y) gets a letter
withLetter(board, x, y, letter) ==
  [r \in 1..Len(board) |->
     [c \in 1..Len(board[r]) |->
        IF board[r][c].x = x /\ board[r][c].y = y
        THEN [board[r][c] EXCEPT !.letter = letter] ELSE board[r][c]]]

\* the cell of the page at (x, y) gets one more small square
withHint(board, x, y, hint) ==
  [r \in 1..Len(board) |->
     [c \in 1..Len(board[r]) |->
        IF board[r][c].x = x /\ board[r][c].y = y
        THEN [board[r][c] EXCEPT !.hints = Append(@, hint)] ELSE board[r][c]]]

\* the letter the page shows at (x, y)
letterOf(board, x, y) ==
  LET cells == SelectSeq(Flat(board), LAMBDA cell : cell.x = x /\ cell.y = y)
  IN IF cells = <<>> THEN NULL ELSE cells[1].letter

(***************************************************************************)
(* The state machine: the game page changes the snapshot (hints appear,    *)
(* an accepted guess confirms the letters of its line) and the caller      *)
(* applies playNextGuess to the current snapshot.                          *)
(***************************************************************************)
NotCalled == [NoWord(0) EXCEPT !.kind = "none"]

\* most play requests the controller receives
MaxPlays == 2

\* a play request that has not arrived yet
NotRequested == [pc |-> "none", moveCount |-> 0, message |-> ""]

\* the controller after construction: isPlaying = false, nothing requested
ControllerIdle ==
  /\ isPlaying = FALSE
  /\ plays = [r \in 1..MaxPlays |-> NotRequested]
  /\ statusAnswer = "none"

\* cells of the page the model lets the game put a hint on
HintSites == {<<0, 4>>, <<4, 1>>}
HintLetters == {"B", "C"}
ModelHintTypes ==
  {"Green", "HorizontalSimple", "VerticalSimple",
   "OrangeSimpleVerticalSimpleHorizontal", "White", "Black"}

hintCount(board) ==
  LET cells == Flat(board)
      RECURSIVE sum(_)
      sum(i) == IF i > Len(cells) THEN 0 ELSE Len(cells[i].hints) + sum(i + 1)
  IN sum(1)

\* insertWordInBoard writing to the board it was given instead of a copy
boardAfterInsertInPlace(bs, word, direction) ==
  IF insertWordInBoard(bs, word, direction).ok
  THEN insertWordInBoard(bs, word, direction).val ELSE bs.board

\* the contents of the caller's board once insertWordInBoard has returned:
\* the letters are written to the copy cloneDeep made
boardAfterInsert(bs, word, direction) == bs.board

RECURSIVE boardAfterFits(_, _, _, _)
\* the caller's board after checkIfWordFits ran on candidates k.. of a direction
boardAfterFits(bs, candidates, k, direction) ==
  IF k > Len(candidates) THEN bs.board
  ELSE boardAfterFits(
         [bs EXCEPT !.board = boardAfterInsert(bs, candidates[k], direction)],
         candidates, k + 1, direction)

\* the caller's board once playNextGuess has returned or thrown
boardAfterPlay(bs) ==
  IF isInitialState(bs.board) \/ isBoardFull(bs.board) \/ ~getWords(bs.language).ok
  THEN bs.board
  ELSE LET all == getWords(bs.language).val
           afterH == boardAfterFits(
                       bs, applyWordsFilter(all, createWordsFilters(bs, Horizontal)),
                       1, Horizontal)
       IN boardAfterFits([bs EXCEPT !.board = afterH],
                         applyWordsFilter(all, createWordsFilters(bs, Vertical)),
                         1, Vertical)

Init ==
  /\ boardState \in
       [guessesRemaining : {MaxGuesses}, nextGuessIndex : GuessIndexes,
        language : Languages, board : {EmptyGrid, extractBoardState, SolvedGrid}]
  /\ result = NotCalled
  /\ lastCall = boardState
  /\ ControllerIdle

\* the page shows one more small square on the cell at site
RevealHint(site, letter, type) ==
  /\ hintCount(boardState.board) < MaxHints
  /\ boardState' = [boardState EXCEPT
       !.board = withHint(@, site[1], site[2], [letter |-> letter, type |-> type])]
  /\ result' = NotCalled
  /\ lastCall' = boardState'
  /\ UNCHANGED controllerVars

\* the caller asks for the next guess
PlayNextGuess ==
  /\ result.kind = "none"
  /\ result' = playNextGuess(boardState)
  /\ lastCall' = boardState
  /\ boardState' = [boardState EXCEPT !.board = boardAfterPlay(boardState)]
  /\ UNCHANGED controllerVars

RECURSIVE confirmWord(_, _, _, _, _)
\* the page after the game confirmed letters i.. of word on a line
confirmWord(board, word, direction, index, i) ==
  IF i > Len(word) THEN board
  ELSE confirmWord(
         IF direction = Horizontal
         THEN withLetter(board, i - 1, index, toUpperCase(word[i]))
         ELSE withLetter(board, index, i - 1, toUpperCase(word[i])),
         word, direction, index, i + 1)

\* the submitted guess was right: the game confirms it on the line the engine
\* chose, moves the marker on and counts the guess
GameAcceptsGuess ==
  /\ result.kind = "word"
  /\ result.direction \in Directions
  /\ boardState.guessesRemaining > 0
  /\ boardState' = [boardState EXCEPT
       !.board = confirmWord(@, result.word, result.direction,
                             boardState.nextGuessIndex, 1),
       !.nextGuessIndex = getNextIndex(@).val,
       !.guessesRemaining = @ - 1]
  /\ result' = NotCalled
  /\ lastCall' = boardState'
  /\ UNCHANGED controllerVars

Next ==
  \/ \E site \in HintSites, letter \in HintLetters, type \in ModelHintTypes :
       RevealHint(site, letter, type)
  \/ PlayNextGuess
  \/ GameAcceptsGuess

Spec == Init /\ [][Next]_vars

(***************************************************************************)
(* Snapshots whose marker stands between the guess lines: the scraper      *)
(* rounds the marker's position to a column 0..4, so nextGuessIndex can be *)
(* 1 or 3.                                                                 *)
(***************************************************************************)
OffSequenceIndexes == (0..4) \ GuessIndexes

InitOffSequence ==
  /\ boardState \in
       [guessesRemaining : {MaxGuesses}, nextGuessIndex : OffSequenceIndexes,
        language : Languages, board : {EmptyGrid, extractBoardState, SolvedGrid}]
  /\ result = NotCalled
  /\ lastCall = boardState
  /\ ControllerIdle

NextOffSequence ==
  \/ \E site \in HintSites, letter \in HintLetters, type \in ModelHintTypes :
       RevealHint(site, letter, type)
  \/ PlayNextGuess

SpecOffSequence == InitOffSequence /\ [][NextOffSequence]_vars

(***************************************************************************)
(* isBoardFull on its own: the auto player applies it to every snapshot    *)
(* before it asks for a guess.  The snapshots are solved boards with some  *)
(* playable cells still empty and, on the 5x5 matrix, letters on some of   *)
(* the blocked cells.                                                      *)
(***************************************************************************)
BlockedCells == {<<1, 1>>, <<1, 3>>, <<3, 1>>, <<3, 3>>}

\* playable cells the snapshots may show empty
ProbeCells == {<<0, 0>>, <<2, 2>>, <<4, 3>>, <<1, 4>>}

\* board with the letter of every cell in cells set to letter
withLetters(board, cells, letter) ==
  [r \in 1..Len(board) |->
     [c \in 1..Len(board[r]) |->
        IF <<board[r][c].x, board[r][c].y>> \in cells
        THEN [board[r][c] EXCEPT !.letter = letter] ELSE board[r][c]]]

\* the solved board as the scraper lays it out
SolvedScraperBoard ==
  [r \in 1..5 |-> SelectSeq(SolvedGrid[r], LAMBDA cell : ~isBlockedPosition(cell))]

FullCheckBoards ==
  {withLetters(withLetters(SolvedGrid, empty, NULL), lettered, "B") :
     empty \in SUBSET ProbeCells, lettered \in SUBSET BlockedCells}
    \cup {withLetters(SolvedScraperBoard, empty, NULL) : empty \in SUBSET ProbeCells}

InitBoardFull ==
  /\ boardState \in
       [guessesRemaining : {MaxGuesses}, nextGuessIndex : {guessSequence[1]},
        language : {"en"}, board : FullCheckBoards]
  /\ result = NotCalled
  /\ lastCall = boardState
  /\ ControllerIdle

\* const isBoardFull = this.playerService.isBoardFull(boardState.board)
CheckBoardFull ==
  /\ result.kind = "none"
  /\ result' = [NotCalled EXCEPT
       !.kind = IF isBoardFull(boardState.board) THEN "full" ELSE "notFull"]
  /\ UNCHANGED <<boardState, lastCall>>
  /\ UNCHANGED controllerVars

NextBoardFull == CheckBoardFull

SpecBoardFull == InitBoardFull /\ [][NextBoardFull]_vars

(***************************************************************************)
(* The components on their own.  lastCall holds the arguments a component  *)
(* is applied to and result what it returned or threw.                     *)
(***************************************************************************)
\* a new game on the 5x5 matrix
NewGame ==
  [guessesRemaining |-> MaxGuesses, nextGuessIndex |-> guessSequence[1],
   language |-> "en", board |-> EmptyGrid]

Returned(val) == [kind |-> "returned", val |-> val]

\* the sequences over S of length at most n
SeqsUpTo(S, n) == UNION {[1..k -> S] : k \in 0..n}

(***************************************************************************)
(* Candidate Filter: applyWordsFilter on word lists and                    *)
(* FilterSpecifications in both letter cases.                              *)
(***************************************************************************)
\* longest word list given to the Candidate Filter
MaxWords == 2
\* most entries of one list of a FilterSpecification
MaxEntries == 2

FilterWords == {<<"A", "b">>, <<"a", "a">>, <<"B", "A">>}
FilterPairs == {[index |-> 0, letter |-> "a"], [index |-> 1, letter |-> "B"]}
FilterLetters == {"A", "b"}

InitFilter ==
  /\ lastCall \in
       [candidateWords : SeqsUpTo(FilterWords, MaxWords),
        wordsFilter :
          [matchingLetters : SeqsUpTo(FilterPairs, MaxEntries),
           includes : SeqsUpTo(FilterLetters, MaxEntries),
           excludingPositions : SeqsUpTo(FilterPairs, MaxEntries),
           excludes : SeqsUpTo(FilterLetters, MaxEntries)]]
  /\ result = NotCalled
  /\ boardState = NewGame
  /\ ControllerIdle

ApplyWordsFilter ==
  /\ result.kind = "none"
  /\ result' = Returned(applyWordsFilter(lastCall.candidateWords, lastCall.wordsFilter))
  /\ UNCHANGED <<boardState, lastCall>>
  /\ UNCHANGED controllerVars

NextFilter == ApplyWordsFilter

SpecFilter == InitFilter /\ [][NextFilter]_vars

(***************************************************************************)
(* Scorer: determineWordsScores on candidate lists, lists of mixed lengths *)
(* and the empty list included.                                            *)
(***************************************************************************)
\* longest candidate list given to the Scorer
MaxCandidates == 3
\* longest candidate word given to the Scorer
MaxWordLength == 2

ScoreLetters == {"A", "a", "B"}
ScoreWords == UNION {[1..n -> ScoreLetters] : n \in 1..MaxWordLength}

InitScorer ==
  /\ lastCall \in [candidateWords : SeqsUpTo(ScoreWords, MaxCandidates)]
  /\ result = NotCalled
  /\ boardState = NewGame
  /\ ControllerIdle

DetermineWordsScores ==
  /\ result.kind = "none"
  /\ result' = IF determineWordsScores(lastCall.candidateWords).ok
                THEN Returned(determineWordsScores(lastCall.candidateWords).val)
                ELSE [kind |-> "error", err |-> "length"]
  /\ UNCHANGED <<boardState, lastCall>>
  /\ UNCHANGED controllerVars

NextScorer == DetermineWordsScores

SpecScorer == InitScorer /\ [][NextScorer]_vars

(***************************************************************************)
(* Board Simulator: insertWordInBoard on both board layouts, with letters  *)
(* already confirmed on some cells.                                        *)
(***************************************************************************)
\* cells that may hold a confirmed letter before the insertion
LetterSites == {<<0, 0>>, <<2, 1>>, <<4, 1>>, <<4, 2>>}
SiteLetters == {NULL, "A", "B"}

SimulatorWords ==
  {<<"a", "b", "a", "b", "a">>, <<"A", "A", "A", "A", "A">>, <<"B", "A", "B", "A", "B">>}

RECURSIVE withSiteLetters(_, _, _)
\* board with the letter letters[site] on every site of sites
withSiteLetters(board, letters, sites) ==
  IF sites = {} THEN board
  ELSE LET site == CHOOSE p \in sites : TRUE
       IN withSiteLetters(withLetter(board, site[1], site[2], letters[site]),
                          letters, sites \ {site})

SimulatorBoards ==
  {withSiteLetters(layout, letters, LetterSites) :
     layout \in {EmptyGrid, extractBoardState},
     letters \in [LetterSites -> SiteLetters]}

\* what a throwing call leaves as its outcome
Threw(err) == [kind |-> "error", err |-> err]

InitSimulator ==
  /\ boardState \in
       [guessesRemaining : {MaxGuesses}, nextGuessIndex : GuessIndexes,
        language : {"en"}, board : SimulatorBoards]
  /\ lastCall \in
       [boardState : {boardState}, word : SimulatorWords, direction : Directions]
  /\ result = NotCalled
  /\ ControllerIdle

InsertWordInBoard ==
  /\ result.kind = "none"
  /\ result' =
       LET sim == insertWordInBoard(lastCall.boardState, lastCall.word,
                                    lastCall.direction)
       IN IF sim.ok THEN Returned(sim.val) ELSE Threw(sim.err)
  /\ boardState' = [boardState EXCEPT
       !.board = boardAfterInsert(boardState, lastCall.word, lastCall.direction)]
  /\ UNCHANGED lastCall
  /\ UNCHANGED controllerVars

NextSimulator == InsertWordInBoard

SpecSimulator == InitSimulator /\ [][NextSimulator]_vars

(***************************************************************************)
(* The Feasibility Validator on its own: checkIfWordFits applied to one    *)
(* corpus word and direction on boards with a few confirmed letters and on *)
(* solved boards with one line taken out.                                  *)
(***************************************************************************)
\* the cells of row index and of column index
LineCells(direction, index) ==
  {p \in (0..4) \X (0..4) : IF direction = Horizontal THEN p[2] = index
                                                      ELSE p[1] = index}

\* solved boards, in both layouts, with the cells of one line emptied
OneLineMissingBoards ==
  {withLetters(solved, LineCells(direction, index), NULL) :
     solved \in {SolvedGrid, SolvedScraperBoard},
     direction \in Directions, index \in GuessIndexes}

ValidatorBoards == SimulatorBoards \cup OneLineMissingBoards

InitValidator ==
  /\ boardState \in
       [guessesRemaining : {MaxGuesses}, nextGuessIndex : GuessIndexes,
        language : {"en"}, board : ValidatorBoards]
  /\ lastCall \in
       [boardState : {boardState}, word : Range(answersEn), direction : Directions]
  /\ result = NotCalled
  /\ ControllerIdle

CheckIfWordFits ==
  /\ result.kind = "none"
  /\ result' =
       LET fits == checkIfWordFits(lastCall.word, lastCall.direction,
                                  lastCall.boardState,
                                  getWords(lastCall.boardState.language).val)
       IN IF fits.ok THEN Returned(fits.val) ELSE Threw(fits.err)
  /\ boardState' = [boardState EXCEPT
       !.board = boardAfterInsert(boardState, lastCall.word, lastCall.direction)]
  /\ UNCHANGED lastCall
  /\ UNCHANGED controllerVars

NextValidator == CheckIfWordFits

SpecValidator == InitValidator /\ [][NextValidator]_vars

(***************************************************************************)
(* The lookahead on its own: the loop "for (let i = 0; i < maxIterations;  *)
(* i++)" of determineBestWord run for one candidate, one action per call   *)
(* it makes.  result holds the loop's locals.  What the nested Guess       *)
(* Selector answers is chosen among the answers returnNextGuess can give   *)
(* for the simulated state: null, a word the Candidate Filter leaves for   *)
(* one of the two current lines, tagged with its direction, or an error.   *)
(***************************************************************************)
\* boards of both layouts with one hint on them
LookaheadBoards ==
  {withHint(layout, 4, 1, [letter |-> "B", type |-> "VerticalSimple"]) :
     layout \in {EmptyGrid, extractBoardState}}

\* the candidates the loop is run for
LookaheadWords == {answersEn[1], answersEn[3]}

NullAnswer == [kind |-> "null", word |-> <<>>, direction |-> ""]

\* the nested call threw
ThrownAnswer == [kind |-> "error", word |-> <<>>, direction |-> ""]

WordAnswers(words, direction) ==
  {[kind |-> "word", word |-> word, direction |-> direction] : word \in words}

\* what returnNextGuess may answer for the state bs; it can throw where a row
\* has fewer than five cells (checkIfWordFits on a vertical candidate)
NestedAnswers(bs) ==
  {NullAnswer}
    \cup UNION {WordAnswers(Range(applyWordsFilter(
                                    getWords(bs.language).val,
                                    createWordsFilters(bs, direction))),
                            direction) : direction \in Directions}
    \cup (IF \E r \in 1..Len(bs.board) : Len(bs.board[r]) # 5
          THEN {ThrownAnswer} ELSE {})

\* the locals of the loop before pass i
Simulating(pc, i, simulatedBoard, currentGuessIndex, simulationWord, insertions) ==
  [kind |-> "simulating", pc |-> pc, i |-> i, simulatedBoard |-> simulatedBoard,
   currentGuessIndex |-> currentGuessIndex, simulationWord |-> simulationWord,
   insertions |-> insertions]

\* the loop is over: isValid, the insertions made and the way out taken
Simulated(isValid, insertions, ended) ==
  [kind |-> "returned", val |-> isValid, insertions |-> insertions, ended |-> ended]

\* a call made by the loop threw
SimulationThrew(err, insertions) ==
  [kind |-> "error", err |-> err, insertions |-> insertions, ended |-> "error"]

InitLookahead ==
  /\ boardState \in
       [guessesRemaining : {MaxGuesses}, nextGuessIndex : GuessIndexes,
        language : {"en"}, board : LookaheadBoards]
  /\ lastCall \in
       [boardState : {boardState}, word : LookaheadWords, direction : Directions]
  /\ result = NotCalled
  /\ ControllerIdle

\* restart the simulation
StartSimulation ==
  /\ result.kind = "none"
  /\ result' = Simulating("insertWordInBoard", 0, cloneDeep(lastCall.boardState.board),
                          lastCall.boardState.nextGuessIndex,
                          [word |-> lastCall.word, direction |-> lastCall.direction],
                          <<>>)
  /\ UNCHANGED <<boardState, lastCall>>
  /\ UNCHANGED controllerVars

\* a pass up to the nested call: insertWordInBoard, isBoardFull, getNextIndex
SimulatedInsertion ==
  /\ result.kind = "simulating" /\ result.pc = "insertWordInBoard"
  /\ result' =
       LET bs == lastCall.boardState
           sim == insertWordInBoard(
                    [language |-> bs.language, guessesRemaining |-> bs.guessesRemaining,
                     nextGuessIndex |-> result.currentGuessIndex,
                     board |-> result.simulatedBoard],
                    result.simulationWord.word, result.simulationWord.direction)
           nextIndex == getNextIndex(result.currentGuessIndex)
           insertions == Append(result.insertions, result.currentGuessIndex)
       IN IF ~sim.ok THEN SimulationThrew(sim.err, insertions)
          ELSE IF isBoardFull(sim.val) THEN Simulated(TRUE, insertions, "full")
          ELSE IF ~nextIndex.ok THEN SimulationThrew("index", insertions)
          ELSE Simulating("returnNextGuess", result.i, sim.val, nextIndex.val,
                          result.simulationWord, insertions)
  /\ UNCHANGED <<boardState, lastCall>>
  /\ UNCHANGED controllerVars

\* the rest of the pass: the nested Guess Selector answers nextGuess; null
\* ends the loop with isValid = false, a word is simulated next unless i
\* reaches maxIterations
NestedGuessAnswers(nextGuess) ==
  /\ result.kind = "simulating" /\ result.pc = "returnNextGuess"
  /\ nextGuess \in NestedAnswers(nestedBoardState(lastCall.boardState,
                                                  result.simulatedBoard,
                                                  result.currentGuessIndex, result.i))
  /\ result' =
       IF nextGuess.kind = "null" THEN Simulated(FALSE, result.insertions, "null")
       ELSE IF nextGuess.kind = "error"
       THEN SimulationThrew("type", result.insertions)
       ELSE IF result.i + 1 >= maxIterations
       THEN Simulated(TRUE, result.insertions, "cap")
       ELSE Simulating("insertWordInBoard", result.i + 1, result.simulatedBoard,
                       result.currentGuessIndex,
                       [word |-> nextGuess.word, direction |-> nextGuess.direction],
                       result.insertions)
  /\ UNCHANGED <<boardState, lastCall>>
  /\ UNCHANGED controllerVars

NextLookahead ==
  \/ StartSimulation
  \/ SimulatedInsertion
  \/ \E nextGuess \in {NullAnswer, ThrownAnswer}
                        \cup WordAnswers(Range(answersEn), Horizontal)
                        \cup WordAnswers(Range(answersEn), Vertical) :
       NestedGuessAnswers(nextGuess)

SpecLookahead == InitLookahead /\ [][NextLookahead]_vars

(***************************************************************************)
(* determineBestWord on its own, for a direction returnNextGuess asks it   *)
(* for: both candidate lists went through checkIfWordFits and are not      *)
(* empty, and the line of the direction has no fewer empty cells than the  *)
(* other line.                                                             *)
(***************************************************************************)
\* boards with confirmed letters and a hint for B on the cell (4, 1)
BestWordBoards ==
  {withHint(board, 4, 1, [letter |-> "B", type |-> "VerticalSimple"]) :
     board \in SimulatorBoards}

\* the candidates returnNextGuess hands on for direction
deepFilteredCandidateWords(bs, direction) ==
  getFilteredCandidateWords(bs, getWords(bs.language).val, direction)

InitBestWord ==
  /\ boardState \in
       [guessesRemaining : {MaxGuesses}, nextGuessIndex : GuessIndexes,
        language : {"en"}, board : BestWordBoards]
  /\ lastCall \in [boardState : {boardState}, direction : Directions]
  /\ \A direction \in Directions :
       /\ deepFilteredCandidateWords(boardState, direction).ok
       /\ deepFilteredCandidateWords(boardState, direction).val # <<>>
  /\ countMissingLetters(getCurrentCells(boardState, lastCall.direction))
       >= countMissingLetters(getCurrentCells(boardState,
                                              flipDirection(lastCall.direction)))
  /\ result = NotCalled
  /\ ControllerIdle

DetermineBestWord ==
  /\ result.kind = "none"
  /\ result' = determineBestWord(
                 deepFilteredCandidateWords(lastCall.boardState, lastCall.direction).val,
                 lastCall.boardState, lastCall.direction)
  /\ UNCHANGED <<boardState, lastCall>>
  /\ UNCHANGED controllerVars

NextBestWord == DetermineBestWord

SpecBestWord == InitBestWord /\ [][NextBestWord]_vars

(***************************************************************************)
(* The Constraint Extractor on its own: createWordsFilters on boards of    *)
(* both layouts with up to two small squares of any kind.                  *)
(***************************************************************************)
\* cells that get a small square: on the current lines and off them
ExtractorSites == {<<0, 0>>, <<2, 0>>, <<4, 1>>, <<0, 4>>, <<2, 3>>}
\* the small square that all boards have, and the ones some have as well
ExtractorHints == [letter : {"B", "C"}, type : HintType]
SecondHints ==
  {[letter |-> "B", type |-> "Black"], [letter |-> "C", type |-> "VerticalTriple"]}

ExtractorBoards ==
  LET one == {withHint(layout, site[1], site[2], hint) :
                layout \in {EmptyGrid, extractBoardState},
                site \in ExtractorSites, hint \in ExtractorHints}
      two == {withHint(board, site[1], site[2], hint) :
                board \in one, site \in {<<0, 0>>, <<4, 1>>, <<2, 3>>},
                hint \in SecondHints}
  IN one \cup two

InitExtractor ==
  /\ boardState \in
       [guessesRemaining : {MaxGuesses}, nextGuessIndex : GuessIndexes,
        language : {"en", "pt-br"}, board : ExtractorBoards]
  /\ lastCall = boardState
  /\ result = NotCalled
  /\ ControllerIdle

CreateWordsFilters ==
  /\ result.kind = "none"
  /\ result' = Returned([direction \in Directions |->
                           createWordsFilters(lastCall, direction)])
  /\ UNCHANGED <<boardState, lastCall>>
  /\ UNCHANGED controllerVars

NextExtractor == CreateWordsFilters

SpecExtractor == InitExtractor /\ [][NextExtractor]_vars

(***************************************************************************)
(* The auto player controller.  Node runs a handler from one await to the  *)
(* next without interruption, so each action is the code between two       *)
(* awaits of playAutomatically, or a whole stop or status request.  pc of  *)
(* a play request names the promise it awaits; moveCount is the number of  *)
(* guesses it has submitted.  What the page and the engine answer is       *)
(* chosen freely.                                                          *)
(***************************************************************************)
\* the loop's safety limit
maxMoves == 20

AwaitedPromises == {"getBoardState", "typeWordAndSubmit", "delay", "finalBoardState"}

\* what one pass of the loop finds once the snapshot has arrived
SnapshotOutcomes == {"error", "full", "noGuesses", "noWord", "word"}

InitAutoPlayer ==
  /\ boardState = NewGame
  /\ result = NotCalled
  /\ lastCall = boardState
  /\ ControllerIdle

\* return or catch, then finally { this.isPlaying = false }
finished(play, message) == [play EXCEPT !.pc = "done", !.message = message]

\* POST play: refused while isPlaying, else the flag is set and the loop
\* runs up to its first await
PlayAutomatically(r) ==
  /\ plays[r].pc = "none"
  /\ \A q \in 1..(r - 1) : plays[q].pc # "none"
  /\ IF isPlaying
     THEN /\ plays' = [plays EXCEPT ![r] = finished(@, "already in progress")]
          /\ UNCHANGED isPlaying
     ELSE /\ plays' = [plays EXCEPT ![r].pc = "getBoardState"]
          /\ isPlaying' = TRUE
  /\ UNCHANGED <<statusAnswer, boardState, result, lastCall>>

\* the snapshot arrives (or getBoardState rejects): full board, no guesses
\* left, no guess found or an exception end the request, a word is typed
SnapshotArrives(r, outcome) ==
  /\ plays[r].pc = "getBoardState"
  /\ IF outcome = "word"
     THEN /\ plays' = [plays EXCEPT ![r].pc = "typeWordAndSubmit"]
          /\ UNCHANGED isPlaying
     ELSE /\ plays' = [plays EXCEPT ![r] = finished(@, outcome)]
          /\ isPlaying' = FALSE
  /\ UNCHANGED <<statusAnswer, boardState, result, lastCall>>

\* typeWordAndSubmit resolves: moveCount++ and the delay starts; or it
\* rejects
GuessSubmitted(r, resolved) ==
  /\ plays[r].pc = "typeWordAndSubmit"
  /\ IF resolved
     THEN /\ plays' = [plays EXCEPT ![r].pc = "delay", ![r].moveCount = @ + 1]
          /\ UNCHANGED isPlaying
     ELSE /\ plays' = [plays EXCEPT ![r] = finished(@, "error")]
          /\ isPlaying' = FALSE
  /\ UNCHANGED <<statusAnswer, boardState, result, lastCall>>

\* the delay is over: the next pass starts, or the loop has reached maxMoves
DelayOver(r) ==
  /\ plays[r].pc = "delay"
  /\ plays' = [plays EXCEPT
       ![r].pc = IF plays[r].moveCount < maxMoves THEN "getBoardState"
                 ELSE "finalBoardState"]
  /\ UNCHANGED <<isPlaying, statusAnswer, boardState, result, lastCall>>

\* the snapshot after the last move arrives, or getBoardState rejects
FinalSnapshotArrives(r, resolved) ==
  /\ plays[r].pc = "finalBoardState"
  /\ plays' = [plays EXCEPT
       ![r] = finished(@, IF resolved THEN "maximum move limit" ELSE "error")]
  /\ isPlaying' = FALSE
  /\ UNCHANGED <<statusAnswer, boardState, result, lastCall>>

\* POST stop
StopPlaying ==
  /\ statusAnswer' = IF isPlaying THEN "stopped" ELSE "was not running"
  /\ isPlaying' = FALSE
  /\ UNCHANGED <<plays, boardState, result, lastCall>>

\* GET status
GetPlayingStatus ==
  /\ statusAnswer' = IF isPlaying THEN "running" ELSE "not in progress"
  /\ UNCHANGED <<isPlaying, plays, boardState, result, lastCall>>

NextAutoPlayer ==
  \/ \E r \in 1..MaxPlays : PlayAutomatically(r)
  \/ \E r \in 1..MaxPlays, outcome \in SnapshotOutcomes : SnapshotArrives(r, outcome)
  \/ \E r \in 1..MaxPlays, resolved \in BOOLEAN : GuessSubmitted(r, resolved)
  \/ \E r \in 1..MaxPlays : DelayOver(r)
  \/ \E r \in 1..MaxPlays, resolved \in BOOLEAN : FinalSnapshotArrives(r, resolved)
  \/ StopPlaying
  \/ GetPlayingStatus

SpecAutoPlayer == InitAutoPlayer /\ [][NextAutoPlayer]_vars

(***************************************************************************)
(* Properties.  lastCall is the GameState playNextGuess was applied to and *)
(* result what it returned or threw.                                       *)
(***************************************************************************)
Called == result.kind # "none"

\* the corpus of the state's language, for the languages that have one
corpusOf(bs) == getWords(bs.language).val

\* a / b > c / d for positive denominators
greaterConfidence(a, b, c, d) == a * d > c * b

\* the cells of the 5x5 board that are not blocked
PlayableCells == ((0..4) \X (0..4)) \ BlockedCells

\* every playable cell of the board holds a letter
allPlayableLettered(board) ==
  \A p \in PlayableCells : letterOf(board, p[1], p[2]) # NULL

\* position k of the corpus is the first one with the highest confidence
firstOfRanking(words, k) ==
  LET conf(j) == calculateWordConfidence(words, words[j], Len(words[j]))
  IN /\ \A j \in 1..Len(words) :
          ~greaterConfidence(conf(j).num, conf(j).den, conf(k).num, conf(k).den)
     /\ \A j \in 1..(k - 1) :
          greaterConfidence(conf(k).num, conf(k).den, conf(j).num, conf(j).den)

\* C1: on a board without any hint playNextGuess returns the first element of
\* the Scorer's ranking of the whole corpus of the state's language (no word
\* of the corpus has a higher confidence, every earlier word has a lower
\* one), with no direction; the word has length 5 and confidence > 0.
C1_VirginBoardReturnsTopOfCorpus ==
  (Called /\ isInitialState(lastCall.board) /\ getWords(lastCall.language).ok) =>
    /\ result.ok /\ result.kind = "word"
    /\ result.direction = ""
    /\ \E k \in 1..Len(corpusOf(lastCall)) :
         /\ corpusOf(lastCall)[k] = result.word
         /\ firstOfRanking(corpusOf(lastCall), k)
         /\ LET c == calculateWordConfidence(corpusOf(lastCall), result.word, 5)
            IN result.num * c.den = c.num * result.den
    /\ Len(result.word) = 5
    /\ result.num > 0 /\ result.den > 0

\* a first guess was computed for an empty board in the lower-case corpus
C1_Witness ==
  /\ Called /\ isInitialState(lastCall.board) /\ ~allPlayableLettered(lastCall.board)
  /\ lastCall.language = "pt-br"
  /\ result.kind = "word" /\ result.direction = "" /\ Len(result.word) = 5

\* C2 (as stated): whenever every non-blocked cell of the board holds a
\* letter, playNextGuess returns null and proposes no word.
C2_FullBoardReturnsNull ==
  (Called /\ allPlayableLettered(lastCall.board)) => result.kind = "null"

\* C2 (amended): whenever every non-blocked cell holds a letter and some cell
\* carries a hint, playNextGuess returns null; the check for a board without
\* hints comes first, so a full board without hints gets the first guess.
C2_FullBoardWithHintReturnsNull ==
  (Called /\ allPlayableLettered(lastCall.board)) =>
    IF isInitialState(lastCall.board)
    THEN getWords(lastCall.language).ok => result.kind = "word"
    ELSE result.ok /\ result.kind = "null" /\ result.word = <<>>

\* playNextGuess answered null for a full board that shows a hint
C2_Witness ==
  /\ Called /\ allPlayableLettered(lastCall.board)
  /\ ~isInitialState(lastCall.board)
  /\ result.kind = "null"

\* the call went past the checks for a board without hints and a full board
Engaged(bs) ==
  getWords(bs.language).ok /\ ~isInitialState(bs.board) /\ ~isBoardFull(bs.board)

\* what the Candidate Filter leaves of the corpus for the current line
directCandidates(bs, direction) ==
  applyWordsFilter(corpusOf(bs), createWordsFilters(bs, direction))

\* every row of the matrix holds the five cells x = 0..4
isFullMatrix(board) == \A r \in 1..Len(board) : Len(board[r]) = 5

\* C3 (as stated): on a board that is neither without hints nor full, when the
\* Candidate Filter leaves no corpus word for the current horizontal line or
\* for the current vertical line, playNextGuess returns null and throws
\* nothing.
C3_NoCandidatesReturnsNull ==
  (/\ Called /\ Engaged(lastCall)
   /\ \/ directCandidates(lastCall, Horizontal) = <<>>
      \/ directCandidates(lastCall, Vertical) = <<>>)
    => result.ok /\ result.kind = "null"

\* C3 on the matrices that hold all 25 cells: there no call throws
C3_HoldsOnFullMatrix ==
  (/\ Called /\ Engaged(lastCall) /\ isFullMatrix(lastCall.board)
   /\ \/ directCandidates(lastCall, Horizontal) = <<>>
      \/ directCandidates(lastCall, Vertical) = <<>>)
    => result.ok /\ result.kind = "null"

\* the board with word on the current line of direction, cell by cell
placed(bs, word, direction) ==
  confirmWord(bs.board, word, direction, bs.nextGuessIndex, 1)

\* with word on its line, some line of the opposite axis at index 0, 2 or 4
\* has no corpus word left
leavesDeadLine(bs, word, direction) ==
  \E g \in GuessIndexes :
    directCandidates([bs EXCEPT !.board = placed(bs, word, direction),
                                !.nextGuessIndex = g],
                     flipDirection(direction)) = <<>>

\* every word the Candidate Filter leaves, in either direction, leaves a dead
\* line
allCandidatesInfeasible(bs) ==
  \A direction \in Directions :
    \A k \in 1..Len(directCandidates(bs, direction)) :
      leavesDeadLine(bs, directCandidates(bs, direction)[k], direction)

\* C4 (as stated): when every word the Candidate Filter leaves for the current
\* lines would leave some opposite-axis line (index 0, 2 or 4) without a
\* corpus word, playNextGuess returns null, and none of those words.
C4_AllInfeasibleReturnsNull ==
  (Called /\ Engaged(lastCall) /\ allCandidatesInfeasible(lastCall))
    => result.ok /\ result.kind = "null"

\* C4 on the matrices that hold all 25 cells
C4_HoldsOnFullMatrix ==
  (/\ Called /\ Engaged(lastCall) /\ isFullMatrix(lastCall.board)
   /\ allCandidatesInfeasible(lastCall))
    => result.ok /\ result.kind = "null"

\* the cells other than (2, nextGuessIndex) that show a White hint for letter
whiteCellsFor(bs, letter) ==
  {p \in (0..4) \X (0..4) :
     /\ p # <<2, bs.nextGuessIndex>>
     /\ \E k \in 1..Len(Flat(bs.board)) :
          /\ Flat(bs.board)[k].x = p[1] /\ Flat(bs.board)[k].y = p[2]
          /\ \E h \in Range(Flat(bs.board)[k].hints) :
               h.type = "White" /\ h.letter = letter}

\* word has the confirmed letter of (2, nextGuessIndex) at position 2 and
\* does not contain letter
keepsConfirmedAndAvoids(bs, word, letter) ==
  /\ toUpperCase(word[3]) = letterOf(bs.board, 2, bs.nextGuessIndex)
  /\ ~wordIncludes(word, letter)

\* the horizontal words the engine retains for bs, and the one it returned
horizontalWordsOf(bs) ==
  Range(directCandidates(bs, Horizontal))
    \cup (IF Called /\ result.kind = "word" /\ result.direction = Horizontal
          THEN {result.word} ELSE {})

\* C5 (as stated): when the current horizontal line has a confirmed letter at
\* position 2 and some other cell of the board shows a White hint for X,
\* every horizontal candidate retained or returned has the confirmed letter
\* at position 2 and does not contain X.
C5_WhiteAnywhereExcludes ==
  (getWords(boardState.language).ok
   /\ letterOf(boardState.board, 2, boardState.nextGuessIndex) # NULL) =>
    \A X \in UpperLetters :
      whiteCellsFor(boardState, X) # {} =>
        \A w \in horizontalWordsOf(boardState) :
          keepsConfirmedAndAvoids(boardState, w, X)

\* C5 (amended): when the current horizontal line has a confirmed letter at
\* position 2 and another cell of that line shows a White hint for X, every
\* horizontal candidate retained or returned has the confirmed letter at
\* position 2 and does not contain X.
C5_WhiteOnLineExcludes ==
  (getWords(boardState.language).ok
   /\ letterOf(boardState.board, 2, boardState.nextGuessIndex) # NULL) =>
    \A X \in UpperLetters :
      (\E p \in whiteCellsFor(boardState, X) : p[2] = boardState.nextGuessIndex) =>
        \A w \in horizontalWordsOf(boardState) :
          keepsConfirmedAndAvoids(boardState, w, X)

\* a horizontal word was returned for a line with a confirmed letter at
\* position 2 and a White hint on another cell of the line
C5_Witness ==
  /\ Called /\ result.kind = "word" /\ result.direction = Horizontal
  /\ letterOf(boardState.board, 2, boardState.nextGuessIndex) # NULL
  /\ \E X \in UpperLetters :
       /\ \E p \in whiteCellsFor(boardState, X) : p[2] = boardState.nextGuessIndex
       /\ \E w \in Range(corpusOf(boardState)) : wordIncludes(w, X)

\* C6: every call of playNextGuess ends with a word, null or a thrown error;
\* every nested Guess Selector call made by the lookahead got fewer
\* guessesRemaining than its caller had, and Guess Selector calls are never
\* nested deeper than 6.
C6_LookaheadIsBounded ==
  Called =>
    /\ result.kind \in {"word", "null", "error", "undefined"}
    /\ result.decr
    /\ result.depth <= 6

\* a call whose lookahead nested the Guess Selector six deep
C6_Witness == Called /\ result.kind = "word" /\ result.depth = 6 /\ result.decr

\* the number of empty cells of the current line of direction
missingLetters(bs, direction) == countMissingLetters(getCurrentCells(bs, direction))

\* what determineBestWord answered for direction in the outermost selection
bestOf(direction) ==
  IF direction = Horizontal THEN result.best.horizontal ELSE result.best.vertical

\* the outermost Guess Selector call got to choosing between the directions
\* and both directions were asked for their best word
BothDirectionsAnswered ==
  /\ Called /\ Engaged(lastCall) /\ result.ok
  /\ bestOf(Horizontal).kind \in {"word", "null"}
  /\ bestOf(Vertical).kind \in {"word", "null"}

\* a / b for a word, 0 for null, as (x?.confidence ?? 0)
confidenceNum(answer) == IF answer.kind = "word" THEN answer.num ELSE 0

\* the result is the answer of direction, tagged with direction
returnsAnswerOf(direction) ==
  /\ result.kind = "word" /\ result.direction = direction
  /\ result.word = bestOf(direction).word
  /\ result.num = bestOf(direction).num /\ result.den = bestOf(direction).den

\* the direction of strictly higher confidence is returned, when there is one
higherConfidenceWins ==
  /\ greaterConfidence(confidenceNum(bestOf(Horizontal)), bestOf(Horizontal).den,
                       confidenceNum(bestOf(Vertical)), bestOf(Vertical).den)
       => returnsAnswerOf(Horizontal)
  /\ greaterConfidence(confidenceNum(bestOf(Vertical)), bestOf(Vertical).den,
                       confidenceNum(bestOf(Horizontal)), bestOf(Horizontal).den)
       => returnsAnswerOf(Vertical)

\* both directions have a best word and the two confidences are equal
confidencesTie ==
  /\ bestOf(Horizontal).kind = "word" /\ bestOf(Vertical).kind = "word"
  /\ bestOf(Horizontal).num * bestOf(Vertical).den
       = bestOf(Vertical).num * bestOf(Horizontal).den

\* C7 (as stated): with equally many empty cells on the current horizontal
\* and vertical lines, the direction whose best feasible word has the higher
\* confidence is returned, and on equal confidences the horizontal word,
\* tagged horizontal.
C7_TieReturnsHorizontal ==
  (/\ BothDirectionsAnswered
   /\ missingLetters(lastCall, Horizontal) = missingLetters(lastCall, Vertical))
    => /\ higherConfidenceWins
       /\ confidencesTie => returnsAnswerOf(Horizontal)

\* C7 (amended): with equally many empty cells on the current horizontal and
\* vertical lines, the direction whose best feasible word has the higher
\* confidence is returned, and on equal confidences the vertical word, tagged
\* vertical.
C7_TieReturnsVertical ==
  (/\ BothDirectionsAnswered
   /\ missingLetters(lastCall, Horizontal) = missingLetters(lastCall, Vertical))
    => /\ higherConfidenceWins
       /\ confidencesTie => returnsAnswerOf(Vertical)

\* equally many empty cells, the two best words differ in confidence, and the
\* horizontal one, of higher confidence, was returned
C7_Witness ==
  /\ BothDirectionsAnswered
  /\ missingLetters(lastCall, Horizontal) = missingLetters(lastCall, Vertical)
  /\ bestOf(Horizontal).kind = "word" /\ bestOf(Vertical).kind = "word"
  /\ ~confidencesTie
  /\ returnsAnswerOf(Horizontal)

\* the direction whose current line has more empty cells
moreMissing(bs) ==
  IF missingLetters(bs, Horizontal) > missingLetters(bs, Vertical)
  THEN Horizontal ELSE Vertical

\* C8: with different numbers of empty cells on the two current lines, when
\* the direction with more empty cells has a word that passes the lookahead,
\* that word is returned, tagged with that direction, and the other direction
\* is not asked; the other direction is asked only when the direction with
\* more empty cells has no word.
C8_MoreEmptyCellsFirst ==
  (/\ Called /\ Engaged(lastCall) /\ result.ok
   /\ missingLetters(lastCall, Horizontal) # missingLetters(lastCall, Vertical))
    => /\ result.kind = "word" =>
            \/ /\ returnsAnswerOf(moreMissing(lastCall))
               /\ result.word \in Range(directCandidates(lastCall, moreMissing(lastCall)))
               /\ bestOf(flipDirection(moreMissing(lastCall))).kind = "none"
            \/ /\ bestOf(moreMissing(lastCall)).kind = "null"
               /\ returnsAnswerOf(flipDirection(moreMissing(lastCall)))
       /\ result.kind = "null" => bestOf(moreMissing(lastCall)).kind # "word"
       /\ bestOf(flipDirection(moreMissing(lastCall))).kind # "none" =>
            bestOf(moreMissing(lastCall)).kind = "null"

\* the current lines differ in empty cells and the word of the emptier line
\* was returned
C8_Witness ==
  /\ Called /\ Engaged(lastCall) /\ result.ok
  /\ missingLetters(lastCall, Horizontal) # missingLetters(lastCall, Vertical)
  /\ returnsAnswerOf(moreMissing(lastCall))
  /\ missingLetters(lastCall, flipDirection(moreMissing(lastCall))) > 0

C10_FullIffAllPlayableLettered ==
  result.kind \in {"full", "notFull"} =>
    /\ result.kind = "full" <=> allPlayableLettered(boardState.board)
    /\ result.kind = "full" <=>
         isBoardFull(withLetters(boardState.board, BlockedCells, NULL))

\* isBoardFull answered true for a 5x5 matrix with an empty and a lettered
\* blocked cell
C10_Witness ==
  /\ result.kind = "full"
  /\ isFullMatrix(boardState.board)
  /\ \E p \in BlockedCells : letterOf(boardState.board, p[1], p[2]) = NULL
  /\ \E p \in BlockedCells : letterOf(boardState.board, p[1], p[2]) # NULL

\* two letters are the same up to letter case
sameLetter(a, b) ==
  \/ a = b
  \/ {a, b} \in {{"a", "A"}, {"b", "B"}, {"c", "C"}}

\* the letter occurs somewhere in the word, up to letter case
occursIn(letter, word) == \E j \in DOMAIN word : sameLetter(word[j], letter)

\* the four conditions of the Candidate Filter on one word
meetsSpecification(word, f) ==
  /\ \A m \in Range(f.matchingLetters) : sameLetter(word[m.index + 1], m.letter)
  /\ \A l \in Range(f.includes) : occursIn(l, word)
  /\ \A m \in Range(f.excludingPositions) : ~sameLetter(word[m.index + 1], m.letter)
  /\ \A l \in Range(f.excludes) : ~occursIn(l, word)

\* the places of the word list whose word meets the specification
keptPlaces(words, f) == {k \in DOMAIN words : meetsSpecification(words[k], f)}

\* C11: applyWordsFilter retains a word if and only if, up to letter case,
\* every required-at-position pair matches, every required letter occurs in
\* the word, no forbidden-at-position pair matches and no forbidden letter
\* occurs in the word; the retained words are the words at the retained
\* places of the input, in the order of the input.
C11_RetainsExactlyMatchingInOrder ==
  result.kind = "returned" =>
    LET kept == keptPlaces(lastCall.candidateWords, lastCall.wordsFilter)
    IN /\ Len(result.val) = Cardinality(kept)
       /\ \A k \in kept :
            result.val[1 + Cardinality({j \in kept : j < k})]
              = lastCall.candidateWords[k]

\* two different words were retained, in their input order, by a filter with
\* a required-at-position pair and a required letter that one of the words
\* has only in the other letter case
C11_Witness ==
  /\ result.kind = "returned"
  /\ Len(lastCall.candidateWords) = 2
  /\ lastCall.candidateWords[1] # lastCall.candidateWords[2]
  /\ result.val = lastCall.candidateWords
  /\ lastCall.wordsFilter.matchingLetters # <<>>
  /\ lastCall.wordsFilter.includes # <<>>
  /\ \E k \in 1..2 :
       \E l \in Range(lastCall.wordsFilter.includes) :
         l \notin Range(lastCall.candidateWords[k])

\* the candidates of the list all have one length
equalLength(words) == \A j, k \in DOMAIN words : Len(words[j]) = Len(words[k])

\* the sum over the positions of word of the number of candidates that carry
\* the word's letter at that position
frequencySum(words, word) ==
  Cardinality({p \in (DOMAIN word) \X (DOMAIN words) : words[p[2]][p[1]] = word[p[1]]})

\* C12: for a non-empty list of candidates of one length the Scorer answers
\* one score per candidate, and each confidence is the sum of the word's
\* per-position letter frequencies over candidateCount x wordLength, a
\* fraction between 0 and 1.
C12_ConfidenceInUnitInterval ==
  (lastCall.candidateWords # <<>> /\ equalLength(lastCall.candidateWords)
   /\ result.kind # "none") =>
    /\ result.kind = "returned"
    /\ Len(result.val) = Len(lastCall.candidateWords)
    /\ \A k \in DOMAIN result.val :
         /\ result.val[k].den
              = Len(lastCall.candidateWords) * Len(result.val[k].word)
         /\ result.val[k].num = frequencySum(lastCall.candidateWords, result.val[k].word)
         /\ result.val[k].den > 0
         /\ 0 <= result.val[k].num /\ result.val[k].num <= result.val[k].den

\* three candidates of two letters were scored, the best with confidence 1
\* not reached and the last with a confidence below the best
C12_Witness ==
  /\ result.kind = "returned" /\ Len(result.val) = 3
  /\ Len(result.val[1].word) = 2
  /\ result.val[1].num < result.val[1].den
  /\ result.val[3].num < result.val[1].num

\* C13: the highest-ranked score has confidence exactly 1 if and only if all
\* candidates of the scored list carry the same letter at every position, as
\* they do when one candidate is left.
C13_PerfectIffAllCandidatesAlike ==
  (lastCall.candidateWords # <<>> /\ equalLength(lastCall.candidateWords)
   /\ result.kind = "returned") =>
    /\ result.val[1].num = result.val[1].den
         <=> \A j, k \in DOMAIN lastCall.candidateWords :
               lastCall.candidateWords[j] = lastCall.candidateWords[k]
    /\ Len(lastCall.candidateWords) = 1 => result.val[1].num = result.val[1].den
    /\ \A k \in DOMAIN result.val : result.val[k].num <= result.val[1].num

\* three copies of one word were scored and the best confidence is 1
C13_Witness ==
  /\ result.kind = "returned" /\ Len(lastCall.candidateWords) = 3
  /\ lastCall.candidateWords[1] = lastCall.candidateWords[3]
  /\ lastCall.candidateWords[2] = lastCall.candidateWords[3]
  /\ result.val[1].num = result.val[1].den

\* the letters of the line the Constraint Extractor selects on board for
\* direction and index, in position order
readLine(board, direction, index) ==
  LET cells == getCurrentCells([board |-> board, nextGuessIndex |-> index], direction)
  IN [i \in 1..Len(cells) |-> cells[i].letter]

\* the five cells of the line of the call are all empty
lineIsEmpty(call) ==
  readLine(call.boardState.board, call.direction, call.boardState.nextGuessIndex)
    = [i \in 1..5 |-> NULL]

\* C14 (as stated): for each direction and each index 0, 2, 4, inserting a
\* 5-letter word into a line whose five cells are empty and reading the line
\* back, in position order, gives the inserted word in upper case.
C14_InsertThenReadGivesWord ==
  (result.kind # "none" /\ lineIsEmpty(lastCall)) =>
    /\ result.kind = "returned"
    /\ readLine(result.val, lastCall.direction, lastCall.boardState.nextGuessIndex)
         = wordToUpperCase(lastCall.word)

\* C14 on the matrices that hold all 25 cells
C14_HoldsOnFullMatrix ==
  (result.kind # "none" /\ lineIsEmpty(lastCall)
   /\ isFullMatrix(lastCall.boardState.board)) =>
    /\ result.kind = "returned"
    /\ readLine(result.val, lastCall.direction, lastCall.boardState.nextGuessIndex)
         = wordToUpperCase(lastCall.word)

\* a lower-case word was inserted into an empty column of the 5x5 matrix and
\* read back in upper case
C14_Witness ==
  /\ result.kind = "returned" /\ lineIsEmpty(lastCall)
  /\ isFullMatrix(lastCall.boardState.board)
  /\ lastCall.direction = Vertical
  /\ lastCall.word # wordToUpperCase(lastCall.word)
  /\ readLine(result.val, Vertical, lastCall.boardState.nextGuessIndex)
       = wordToUpperCase(lastCall.word)

\* the coordinates <<x, y>> of slot i (from 0) of the line of a call
lineCell(call, i) ==
  IF call.direction = Horizontal THEN <<i, call.boardState.nextGuessIndex>>
  ELSE <<call.boardState.nextGuessIndex, i>>

\* some cell of the target line holds a confirmed letter that differs from the
\* incoming letter at that slot
conflictInLine(call) ==
  \E i \in 0..4 :
    letterOf(call.boardState.board, lineCell(call, i)[1], lineCell(call, i)[2])
      \notin {NULL, toUpperCase(call.word[i + 1])}

\* every confirmed letter kept its value, and a cell that got a letter was an
\* empty cell of the target line
onlyEmptyLineCellsWritten(call, newBoard) ==
  \A x, y \in 0..4 :
    letterOf(newBoard, x, y) # letterOf(call.boardState.board, x, y) =>
      /\ letterOf(call.boardState.board, x, y) = NULL
      /\ \E i \in 0..4 : lineCell(call, i) = <<x, y>>

\* C15 (as stated): insertWordInBoard raises the conflict error if and only
\* if some cell of the target line holds a confirmed letter different from
\* the incoming letter at that slot; when it returns, every confirmed letter
\* has kept its value and only empty cells of the line got letters.
C15_ConflictIffLineDisagrees ==
  result.kind # "none" =>
    /\ (result.kind = "error" /\ result.err = "conflict") <=> conflictInLine(lastCall)
    /\ result.kind \in {"returned", "error"}
    /\ result.kind = "error" => result.err = "conflict"
    /\ result.kind = "returned" => onlyEmptyLineCellsWritten(lastCall, result.val)

\* C15 on the matrices that hold all 25 cells
C15_HoldsOnFullMatrix ==
  (result.kind # "none" /\ isFullMatrix(lastCall.boardState.board)) =>
    /\ (result.kind = "error" /\ result.err = "conflict") <=> conflictInLine(lastCall)
    /\ result.kind = "error" => result.err = "conflict"
    /\ result.kind = "returned" => onlyEmptyLineCellsWritten(lastCall, result.val)

\* on the 5x5 matrix a vertical insertion at index 4 raised the conflict
\* error for a column whose cell (4, 2) held another letter
C15_Witness ==
  /\ isFullMatrix(lastCall.boardState.board)
  /\ lastCall.direction = Vertical /\ lastCall.boardState.nextGuessIndex = 4
  /\ result.kind = "error" /\ result.err = "conflict"
  /\ letterOf(lastCall.boardState.board, 4, 2)
       \notin {NULL, toUpperCase(lastCall.word[3])}

\* the state has a hint, an empty playable cell and a nextGuessIndex outside
\* the guess sequence
offSequence(bs) ==
  /\ ~isInitialState(bs.board) /\ ~isBoardFull(bs.board)
  /\ bs.nextGuessIndex \notin GuessIndexes

\* C16 (as stated): for a state with a hint and an empty playable cell whose
\* nextGuessIndex is not 0, 2 or 4, playNextGuess throws; it returns neither
\* a word nor null.
C16_OffSequenceIndexThrows ==
  (Called /\ offSequence(lastCall)) => result.kind = "error"

\* for such a state the index is rejected only where the lookahead asks for
\* the next index: no nested Guess Selector call is ever made, a returned
\* word has confidence 1, and null is returned only when a direction has no
\* candidate left
C16_ThrowsOnlyInLookahead ==
  (Called /\ offSequence(lastCall)) =>
    /\ result.depth <= 1
    /\ result.kind \in {"error", "word", "null"}
    /\ result.kind = "word" => result.num = result.den
    /\ (result.kind = "error" /\ isFullMatrix(lastCall.board)
         /\ getWords(lastCall.language).ok) => result.err = "index"

\* getNextIndex rejected the index 1 or 3 in the lookahead
C16_Witness ==
  /\ Called /\ offSequence(lastCall)
  /\ result.kind = "error" /\ result.err = "index"

\* the play requests whose loop is running, i.e. waits at one of its awaits
activeLoops == {r \in 1..MaxPlays : plays[r].pc \in AwaitedPromises}

\* C17 (as stated): under every interleaving of play, stop and status
\* requests at most one play loop is active at any time, and a play request
\* refused with 'already in progress' has submitted no guess.
C17_AtMostOneLoop ==
  /\ Cardinality(activeLoops) <= 1
  /\ \A r \in 1..MaxPlays :
       plays[r].message = "already in progress" => plays[r].moveCount = 0

\* the guard itself: while isPlaying is set some loop is running, and a
\* refused request has submitted no guess and has awaited nothing
C17_FlagImpliesLoop ==
  /\ isPlaying => activeLoops # {}
  /\ \A r \in 1..MaxPlays :
       plays[r].message = "already in progress" =>
         plays[r].moveCount = 0 /\ plays[r].pc = "done"

\* a play request was refused while another loop was waiting for its guess
\* to be typed
C17_Witness ==
  \E r, q \in 1..MaxPlays :
    /\ plays[r].message = "already in progress"
    /\ plays[q].pc = "typeWordAndSubmit"
    /\ isPlaying

\* the words of direction the Candidate Filter leaves and checkIfWordFits
\* accepts
survivors(bs, direction) ==
  {w \in Range(directCandidates(bs, direction)) :
     checkIfWordFits(w, direction, bs, corpusOf(bs)).val}

\* the outermost Guess Selector call had direct candidates in both directions
\* and threw nothing
BothDirectionsHaveCandidates ==
  /\ Called /\ Engaged(lastCall) /\ result.ok
  /\ directCandidates(lastCall, Horizontal) # <<>>
  /\ directCandidates(lastCall, Vertical) # <<>>

\* C18 (as stated): when the Candidate Filter leaves words in both
\* directions, playNextGuess returns null only if checkIfWordFits accepts no
\* word of either direction; when it rejects every word of exactly one
\* direction, a word of the other direction that it accepts is returned.
C18_OtherDirectionIsReturned ==
  BothDirectionsHaveCandidates =>
    /\ result.kind = "null" =>
         survivors(lastCall, Horizontal) = {} /\ survivors(lastCall, Vertical) = {}
    /\ \A direction \in Directions :
         (/\ survivors(lastCall, direction) = {}
          /\ survivors(lastCall, flipDirection(direction)) # {})
           => /\ result.kind = "word"
              /\ result.direction = flipDirection(direction)
              /\ result.word \in survivors(lastCall, flipDirection(direction))

\* C18 (amended): when the Candidate Filter leaves words in both directions,
\* playNextGuess returns null as soon as checkIfWordFits rejects every word of
\* one direction, whatever it accepts in the other; a returned word is one
\* checkIfWordFits accepts in its direction, and with accepted words in both
\* directions null is returned only when the lookahead refused both answers.
C18_NullWhenEitherDirectionIsEmptied ==
  BothDirectionsHaveCandidates =>
    /\ (survivors(lastCall, Horizontal) = {} \/ survivors(lastCall, Vertical) = {})
         => result.kind = "null"
    /\ result.kind = "word" =>
         /\ survivors(lastCall, Horizontal) # {}
         /\ survivors(lastCall, Vertical) # {}
         /\ result.word \in survivors(lastCall, result.direction)
    /\ (/\ result.kind = "null"
        /\ survivors(lastCall, Horizontal) # {}
        /\ survivors(lastCall, Vertical) # {})
         => \A direction \in Directions : bestOf(direction).kind # "word"

\* a call in which checkIfWordFits rejected every vertical candidate and
\* accepted a horizontal one
C18_Witness ==
  /\ BothDirectionsHaveCandidates
  /\ survivors(lastCall, Vertical) = {}
  /\ survivors(lastCall, Horizontal) # {}
  /\ result.kind = "null"

\* the board the simulated insertion of the call gave
simulatedBoard(call) ==
  insertWordInBoard(call.boardState, call.word, call.direction)

\* the Candidate Filter keeps a corpus word for the line of the opposite axis
\* at index on the simulated board
oppositeLineKeepsAWord(call, index) ==
  directCandidates([call.boardState EXCEPT !.board = simulatedBoard(call).val,
                                           !.nextGuessIndex = index],
                   flipDirection(call.direction)) # <<>>

\* C19: when the simulated insertion succeeds, checkIfWordFits returns true
\* if the simulated board is full; otherwise it returns true if and only if,
\* for each index of {0, 2, 4}, the filter of the opposite-axis line at that
\* index on the simulated board keeps at least one word of the whole corpus.
C19_FitsIffFullOrEveryOppositeLineOpen ==
  (Called /\ simulatedBoard(lastCall).ok) =>
    /\ result.kind = "returned"
    /\ isBoardFull(simulatedBoard(lastCall).val) => result.val = TRUE
    /\ ~isBoardFull(simulatedBoard(lastCall).val) =>
         (result.val = TRUE <=>
            \A index \in {0, 2, 4} : oppositeLineKeepsAWord(lastCall, index))

\* a word rejected because of one opposite-axis line only, on a board the
\* insertion does not fill
C19_Witness ==
  /\ Called /\ simulatedBoard(lastCall).ok
  /\ ~isBoardFull(simulatedBoard(lastCall).val)
  /\ result = Returned(FALSE)
  /\ Cardinality({index \in {0, 2, 4} : ~oppositeLineKeepsAWord(lastCall, index)}) = 1

\* the index that follows index in the cycle 0 -> 2 -> 4 -> 0
followsInCycle(index, next) == next = (index + 2) % 6

\* the lookahead of the call is under way or over
Simulation == result.kind \in {"simulating", "returned", "error"}

rankedCandidates(call) ==
  determineWordsScores(
    deepFilteredCandidateWords(call.boardState, call.direction).val).val

\* the best confidence is not 1: determineBestWord goes into the lookahead
lookaheadRuns(call) == ~isPerfectConfidence(rankedCandidates(call)[1])

\* the simulation of candidate k, started on the original board
simulationOf(call, k) ==
  isWordValidThroughSimulation(call.boardState, call.boardState.board,
                               call.boardState.nextGuessIndex,
                               rankedCandidates(call)[k].word, call.direction, 0)

\* the candidates whose simulation never got null from the Guess Selector
acceptedPlaces(call) ==
  {k \in 1..Len(rankedCandidates(call)) : simulationOf(call, k).val}

\* C21: a candidate whose lookahead gets null from the Guess Selector is
\* rejected and the next candidate in Scorer order is simulated from the
\* original board; the word determineBestWord returns for a direction is the
\* first candidate in Scorer order whose simulation is not rejected, and null
\* when every candidate is rejected.
C21_FirstNotRejectedInScorerOrder ==
  (Called /\ result.ok /\ lookaheadRuns(lastCall)) =>
    IF acceptedPlaces(lastCall) = {} THEN result.kind = "null"
    ELSE LET first == CHOOSE k \in acceptedPlaces(lastCall) :
                        \A j \in acceptedPlaces(lastCall) : k <= j
         IN /\ result.kind = "word"
            /\ result.word = rankedCandidates(lastCall)[first].word
            /\ result.num = rankedCandidates(lastCall)[first].num
            /\ result.den = rankedCandidates(lastCall)[first].den

\* the best-ranked candidate was rejected and a later one returned
C21_Witness ==
  /\ Called /\ result.ok /\ lookaheadRuns(lastCall)
  /\ ~simulationOf(lastCall, 1).val
  /\ result.kind = "word"
  /\ result.word # rankedCandidates(lastCall)[1].word

\* C22: when the top-ranked candidate of a direction has confidence exactly
\* 1, determineBestWord returns that word with that confidence and runs no
\* lookahead for it: it makes no nested Guess Selector call and nothing a
\* simulated insertion or a nested call would throw or reject changes the
\* answer.
C22_PerfectConfidenceSkipsLookahead ==
  (Called /\ ~lookaheadRuns(lastCall)) =>
    /\ result.ok /\ result.kind = "word"
    /\ result.word = rankedCandidates(lastCall)[1].word
    /\ result.num = result.den
    /\ result.direction = lastCall.direction
    /\ result.depth = 1

\* a top-ranked candidate of confidence 1 returned although its simulation
\* would have been rejected
C22_Witness ==
  /\ Called /\ ~lookaheadRuns(lastCall)
  /\ result.kind = "word"
  /\ simulationOf(lastCall, 1).ok /\ ~simulationOf(lastCall, 1).val

\* the small squares of the current line of direction, each with the
\* position of its cell in the line
squaresOfLine(bs, direction) ==
  UNION {{[index |-> IF direction = Horizontal THEN cell.x ELSE cell.y,
           letter |-> cell.hints[j].letter, type |-> cell.hints[j].type] :
            j \in 1..Len(cell.hints)} :
           cell \in {c \in Range(Flat(bs.board)) :
                       IF direction = Horizontal THEN c.y = bs.nextGuessIndex
                       ELSE c.x = bs.nextGuessIndex}}

Filtered == result.kind = "returned"

required(direction) == Range(result.val[direction].includes)
forbidden(direction) == Range(result.val[direction].excludes)
forbiddenAtPosition(direction) == Range(result.val[direction].excludingPositions)

ownAxis(direction) == IF direction = Horizontal THEN HorizontalHints ELSE VerticalHints

blackLettersOf(bs) ==
  UNION {{cell.hints[j].letter : j \in {k \in 1..Len(cell.hints) :
                                          cell.hints[k].type = "Black"}} :
           cell \in Range(Flat(bs.board))}

\* the letters another small square than a combined one forbids in the line
forbiddenByOthers(bs, direction) ==
  blackLettersOf(bs)
    \cup {square.letter : square \in
            {sq \in squaresOfLine(bs, direction) :
               sq.type \in {"White"} \cup ownAxis(flipDirection(direction))}}

\* C24: a combined row+column hint of any of the 9 kinds for c on the cell
\* at position i of the line makes c required and (i, c)
\* forbidden-at-position in the filter of the line, whether the line is
\* horizontal or vertical, and does not make c forbidden
C24_CombinedHints ==
  Filtered =>
    \A direction \in Directions : \A square \in squaresOfLine(lastCall, direction) :
      square.type \in OrangeHints =>
        /\ square.letter \in required(direction)
        /\ [index |-> square.index, letter |-> square.letter]
             \in forbiddenAtPosition(direction)
        /\ square.letter \in forbidden(direction) =>
             square.letter \in forbiddenByOthers(lastCall, direction)

C24_Witness ==
  /\ Filtered
  /\ lastCall.nextGuessIndex = 0
  /\ \A direction \in Directions :
       /\ [index |-> 0, letter |-> "C",
           type |-> "OrangeTripleVerticalDoubleHorizontal"]
            \in squaresOfLine(lastCall, direction)
       /\ "C" \in required(direction)
       /\ [index |-> 0, letter |-> "C"] \in forbiddenAtPosition(direction)
       /\ "C" \notin forbidden(direction)
       /\ "B" \in forbidden(direction)
\* the words the Candidate Filter retains for the current line of direction
retained(bs, direction) ==
  Range(applyWordsFilter(getWords(bs.language).val, createWordsFilters(bs, direction)))

hasLetter(word, letter) ==
  \E i \in 1..Len(word) : toUpperCase(word[i]) = toUpperCase(letter)

\* a Black small square on a cell that is on neither current line
blackOffTheLines(bs) ==
  \E cell \in Range(Flat(bs.board)) :
    /\ cell.x # bs.nextGuessIndex
    /\ cell.y # bs.nextGuessIndex
    /\ \E j \in 1..Len(cell.hints) : cell.hints[j].type = "Black"

\* C25: the forbidden set of the filter of either current line holds every
\* letter with a Black hint on any cell of the board, and no word with such
\* a letter is retained for the line
C25_BlackLettersForbiddenBoardWide ==
  Filtered =>
    \A direction \in Directions :
      /\ blackLettersOf(lastCall) \subseteq forbidden(direction)
      /\ \A word \in retained(lastCall, direction) :
           \A letter \in blackLettersOf(lastCall) : ~hasLetter(word, letter)

C25_Witness ==
  /\ Filtered
  /\ blackOffTheLines(lastCall)
  /\ lastCall.language = "pt-br"
  /\ blackLettersOf(lastCall) = {"B"}
  /\ \A direction \in Directions :
       /\ "B" \in forbidden(direction)
       /\ retained(lastCall, direction) = {answersBr[2]}
\* the cell is on the line of direction at index
onLine(cell, direction, index) ==
  IF direction = Horizontal THEN cell.y = index ELSE cell.x = index

\* after differs from before at most in the letters of the playable cells
\* of the line of direction at index
onlyLineWritten(before, after, direction, index) ==
  /\ Len(after) = Len(before)
  /\ \A r \in 1..Len(before) : Len(after[r]) = Len(before[r])
  /\ \A p \in Positions(before) :
       /\ cellAt(after, p).x = cellAt(before, p).x
       /\ cellAt(after, p).y = cellAt(before, p).y
       /\ cellAt(after, p).hints = cellAt(before, p).hints
       /\ isBlockedPosition(cellAt(after, p)) => cellAt(after, p).letter = NULL
       /\ ~onLine(cellAt(before, p), direction, index) =>
            cellAt(after, p).letter = cellAt(before, p).letter

\* a simulated insertion of the lookahead that returned a board
insertionStep ==
  /\ result.kind = "simulating" /\ result.pc = "insertWordInBoard"
  /\ result'.kind = "simulating"

\* C26 (as stated): every simulated insertion of a lookahead that starts on
\* a board whose blocked cells hold no letter leaves the blocked cells
\* without a letter and changes no hint list and no cell outside the line it
\* inserts into.
C26_OnlyTheLineIsWritten ==
  [][insertionStep =>
       onlyLineWritten(result.simulatedBoard, result'.simulatedBoard,
                       result.simulationWord.direction, result.currentGuessIndex)]_vars

\* C26 on the 5x5 matrix that holds the blocked cells: the same, for every
\* simulated insertion made on such a board
C26_HoldsOnFullMatrix ==
  [][(insertionStep /\ isFullMatrix(result.simulatedBoard)) =>
       onlyLineWritten(result.simulatedBoard, result'.simulatedBoard,
                       result.simulationWord.direction, result.currentGuessIndex)]_vars

\* three insertions were simulated on the matrix with the blocked cells, in
\* both directions
C26_Witness ==
  /\ result.kind = "simulating" /\ result.pc = "returnNextGuess"
  /\ Len(result.insertions) = 3
  /\ isFullMatrix(result.simulatedBoard)
  /\ \A p \in Positions(result.simulatedBoard) :
       isBlockedPosition(cellAt(result.simulatedBoard, p))
         => cellAt(result.simulatedBoard, p).letter = NULL
  /\ letterOf(result.simulatedBoard, 0, 1) # NULL
  /\ letterOf(result.simulatedBoard, 1, 2) # NULL
\* the outcomes of inserting into its own line each word the Candidate
\* Filter retains for a current line of the state of the call
retainedInsertions(bs) ==
  UNION {{insertWordInBoard(bs, word, direction) : word \in retained(bs, direction)} :
           direction \in Directions}

\* C27 (as stated): a word the Candidate Filter retains for a line is
\* inserted into that line without the conflict error, and no insertion made
\* by the Feasibility Validator or by the lookahead, nested Guess Selector
\* calls included, raises it.
C27_RetainedWordsInsertWithoutConflict ==
  Called =>
    /\ \A sim \in retainedInsertions(lastCall.boardState) : sim.err # "conflict"
    /\ ~(result.kind = "error" /\ result.err = "conflict")

\* C27 on the 5x5 matrix that holds the blocked cells: the retained words are
\* inserted without any error and determineBestWord, with its lookahead and
\* the nested Guess Selector calls, throws nothing
C27_HoldsOnFullMatrix ==
  (Called /\ isFullMatrix(lastCall.boardState.board)) =>
    /\ \A sim \in retainedInsertions(lastCall.boardState) : sim.ok
    /\ result.ok /\ result.kind # "error"

\* a lookahead with nested calls on a matrix with confirmed letters
C27_Witness ==
  /\ Called /\ isFullMatrix(lastCall.boardState.board)
  /\ result.kind = "word" /\ result.depth >= 2
  /\ letterOf(lastCall.boardState.board, 4, 1) # NULL
  /\ letterOf(lastCall.boardState.board, 2, 1) # NULL
\* newBoard is the board of the call with the word of the call on the cells
\* (x = g, y = 0..4) of the column g the Constraint Extractor reads, and
\* nothing else changed
columnHoldsWord(call, newBoard) ==
  \A x, y \in 0..4 :
    letterOf(newBoard, x, y) =
      IF x = call.boardState.nextGuessIndex /\ ~isBlockedPosition([x |-> x, y |-> y])
      THEN toUpperCase(call.word[y + 1])
      ELSE letterOf(call.boardState.board, x, y)

verticalInsertion ==
  /\ result.kind # "none"
  /\ lastCall.direction = Vertical
  /\ ~conflictInLine(lastCall)

\* C28 (as stated): a vertical insertion at index g of 0, 2, 4 into a column
\* without a disagreeing letter writes letter i of the word to the cell
\* (x = g, y = i), on the board layout the scraper produces as well.
C28_VerticalInsertionWritesItsColumn ==
  verticalInsertion =>
    /\ result.kind = "returned"
    /\ columnHoldsWord(lastCall, result.val)

\* C28 where the array slot of a cell is its coordinate: on the matrix that
\* holds all 25 cells, and at index 0 on the scraper's layout
C28_HoldsWhereSlotIsCoordinate ==
  (verticalInsertion
   /\ (isFullMatrix(lastCall.boardState.board) \/ lastCall.boardState.nextGuessIndex = 0)) =>
    /\ result.kind = "returned"
    /\ columnHoldsWord(lastCall, result.val)

\* a vertical insertion at index 0 on the scraper's layout
C28_Witness ==
  /\ verticalInsertion
  /\ ~isFullMatrix(lastCall.boardState.board)
  /\ lastCall.boardState.nextGuessIndex = 0
  /\ result.kind = "returned"
  /\ letterOf(lastCall.boardState.board, 0, 1) = NULL
  /\ letterOf(result.val, 0, 1) = "B"
  /\ letterOf(result.val, 4, 1) = "A"
\* the answer of the outermost call, as a call of the Feasibility Validator
returnedCall == [boardState |-> lastCall, word |-> result.word,
                 direction |-> result.direction]

\* a word was returned for a board with hints
WordReturned ==
  /\ Called /\ ~isInitialState(lastCall.board)
  /\ result.kind = "word"

\* C29: a word playNextGuess returns for a board with hints carries a
\* direction, is retained by the Candidate Filter for the current line of
\* that direction and passes checkIfWordFits for it: the board is full after
\* its simulated insertion, or every opposite-axis line at 0, 2, 4 keeps a
\* corpus word; also when it is returned for its confidence of 1.
C29_ReturnedWordIsRetainedAndFits ==
  WordReturned =>
    /\ result.direction \in Directions
    /\ result.word \in retained(lastCall, result.direction)
    /\ simulatedBoard(returnedCall).ok
    /\ \/ isBoardFull(simulatedBoard(returnedCall).val)
       \/ \A index \in {0, 2, 4} : oppositeLineKeepsAWord(returnedCall, index)
    /\ checkIfWordFits(result.word, result.direction, lastCall, corpusOf(lastCall))
         = [ok |-> TRUE, err |-> "", val |-> TRUE]

\* a word returned for its confidence of 1, without lookahead, for a line
\* that does not fill the board
C29_Witness ==
  /\ WordReturned
  /\ result.num = result.den /\ result.depth = 1
  /\ ~isBoardFull(simulatedBoard(returnedCall).val)
  /\ Cardinality(retained(lastCall, result.direction)) >= 2
\* the values of guessesRemaining the call is repeated with
OtherGuessesRemaining == {0, MaxGuesses}

\* what a caller sees of an answer: null, a word with its confidence and
\* direction, or the error thrown
visibleAnswer(r) ==
  [ok |-> r.ok, err |-> r.err, kind |-> r.kind, word |-> r.word,
   num |-> r.num, den |-> r.den, direction |-> r.direction]

\* C30: playNextGuess gives the same word, confidence and direction (or the
\* same null or error) for two states that differ in guessesRemaining only,
\* 0 included.
C30_GuessesRemainingIsNotRead ==
  Called =>
    \A g \in OtherGuessesRemaining :
      visibleAnswer(playNextGuess([lastCall EXCEPT !.guessesRemaining = g]))
        = visibleAnswer(result)

\* a word found by a lookahead with nested calls, which count
\* guessesRemaining down, for a state between the two values compared
C30_Witness ==
  /\ Called /\ result.kind = "word" /\ result.depth >= 2
  /\ lastCall.guessesRemaining \in 1..(MaxGuesses - 1)
  /\ visibleAnswer(playNextGuess([lastCall EXCEPT !.guessesRemaining = 0]))
       = visibleAnswer(result)
====
